---- MODULE Spec2Model ----
(***************************************************************************)
(* Model of the realtime session client of the Prizrak integration:       *)
(* custom_components/prizrak/api.py (PrizrakAPI) and the callers of its    *)
(* duplex session.  One client instance, a cooperative task model: the    *)
(* invoke callers, one fire-and-forget sender, one task that disconnects, *)
(* the listener tasks, the server and the wall clock.  Every action is one *)
(* run of a task between two suspension points (await) of the code.        *)
(***************************************************************************)
EXTENDS Integers, Sequences, FiniteSets, TLC

(* ----------------------------- bounds --------------------------------- *)
NCallers == 2        \* tasks that call async_invoke_signalr
MaxClock == 2        \* readings of int(time.time() * 1000) the model takes
MaxConn == 2         \* transport connections opened in one run
MaxHandlers == 2     \* calls of add_message_handler in one run
MaxFrames == 2       \* frames in one transport message of the push session

(* ------------------------ values of the program ----------------------- *)
NoField == "NoField"              \* dict.get() of an absent key: None
RecordSeparator == "<U+001E>"     \* the character "\u001e"

Callers == 1..NCallers
Sender == 0                        \* the task calling async_send_signalr_command
Procs == Callers \cup {Sender}
Conns == 1..MaxConn

Methods == {"GetDevices", "SetConnectionActivity"}
ArgLists == {<<"{}">>, <<RecordSeparator>>}
Results == {"r1", "r2"}
Errors == {NoField, "", "boom"}

\* the callbacks given to add_message_handler, and those of them that raise
Handlers == {"h1", "h2"}
RaisingHandlers == {"h2"}

\* Python truthiness of a str-or-None value
Truthy(v) == v # NoField /\ v # ""

\* a JSON value that is no object (a string, a number, null): .get on it
\* raises AttributeError
JunkArg == [not_a_dict |-> "x"]
IsDict(arg) == "not_a_dict" \notin DOMAIN arg

\* str(int(time.time() * 1000)) at clock reading t
TimeId(t) == ToString(t)

(* --------------------------- JSON text -------------------------------- *)
\* A text is a sequence of tokens; a JSON value is one token, in which the
\* encoder escapes every control character (ensure_ascii), so that no raw
\* record separator is ever part of an encoded value.
Tok(t, v) == [t |-> t, v |-> v]
RsTok == Tok("rs", RecordSeparator)

RECURSIVE DumpsPairs(_, _)
DumpsPairs(pairs, i) ==
    IF i > Len(pairs) THEN <<>>
    ELSE <<Tok("key", pairs[i][1]), Tok(":", ""), Tok("val", pairs[i][2]),
           Tok(IF i = Len(pairs) THEN "}" ELSE ",", "")>>
         \o DumpsPairs(pairs, i + 1)

\* json.dumps of a dict given as its (key, value) pairs in insertion order
Dumps(pairs) ==
    IF Len(pairs) = 0 THEN <<Tok("{", ""), Tok("}", "")>>
    ELSE <<Tok("{", "")>> \o DumpsPairs(pairs, 1)

\* whether json.loads accepts the text as one object
IsObjectText(s) ==
    /\ Len(s) >= 2
    /\ s[1].t = "{"
    /\ \/ Len(s) = 2 /\ s[2].t = "}"
       \/ /\ Len(s) > 2
          /\ (Len(s) - 1) % 4 = 0
          /\ \A j \in 0..(((Len(s) - 1) \div 4) - 1) :
                /\ s[2 + 4 * j].t = "key"
                /\ s[3 + 4 * j].t = ":"
                /\ s[4 + 4 * j].t = "val"
                /\ s[5 + 4 * j].t = (IF 5 + 4 * j = Len(s) THEN "}" ELSE ",")

\* json.loads(s): the keys of the object and the value of a key
LoadsKeys(s) == {s[i].v : i \in {j \in 1..Len(s) : s[j].t = "key"}}
LoadsGet(s, k) ==
    LET i == CHOOSE j \in 1..Len(s) : s[j].t = "key" /\ s[j].v = k
    IN  s[i + 2].v

\* the invocation message of async_invoke_signalr / async_send_signalr_command
InvocationMessage(method, arguments, invocation_id) ==
    << <<"arguments", arguments>>, <<"invocationId", invocation_id>>,
       <<"target", method>>, <<"type", 1>> >>

\* message_str = json.dumps(message) + "\u001e"
BadInvocationText(method, arguments, invocation_id) ==
    Dumps(InvocationMessage(method, arguments, invocation_id))
InvocationText(method, arguments, invocation_id) ==
    Dumps(InvocationMessage(method, arguments, invocation_id)) \o <<RsTok>>

HandshakeText == Dumps(<< <<"protocol", "json">>, <<"version", 1>> >>) \o <<RsTok>>
PingText == Dumps(<< <<"type", 6>> >>) \o <<RsTok>>

NoWire == [op |-> "none", method |-> "", arguments |-> <<>>, text |-> <<>>]

(* --------------------------- async_authenticate ----------------------- *)
\* self._access_token: None, or the dict with its "Type" and "Atoken" (the
\* number 2154785295 is written as its digits)
TypeTag == "2154785295"
NoToken == [x \in {} |-> 0]
HasToken(token) == DOMAIN token # {}
Credential(atoken) == [Type |-> TypeTag, Atoken |-> atoken]

AuthenticationError == "PrizrakAuthenticationError"
AttributeError == "AttributeError"

\* _generate_atoken: base64 of "Salted__", the salt and the AES encryption of
\* the session data, which starts with U2FsdGVkX1 and is never empty; the
\* session id itself when pycryptodome is missing or the encryption raises
Encrypted(server_session_id) == "U2FsdGVkX1+" \o server_session_id
GenerateAtoken(server_session_id, encrypts) ==
    IF encrypts THEN Encrypted(server_session_id) ELSE server_session_id

\* the JSON-RPC envelopes of the passport server
Envelopes ==
    {[error |-> [message |-> "denied"]], [error |-> JunkArg],
     [result |-> [session_id |-> "sid"]], [result |-> [session_id |-> ""]],
     [result |-> [user_title |-> "u"]], [result |-> JunkArg],
     [session_id |-> "sid"]}

\* the answers to the login POST: the status, the sessionId cookie, the
\* X-AToken header, whether the body is JSON, and the envelope
LoginResponses ==
    [status : {200, 401}, cookie : {NoField, "c1"}, atoken : {NoField, "", "hdr"},
     text : {"object", "garbage"}, body : Envelopes]
OkLogin ==
    [status |-> 200, cookie |-> "c1", atoken |-> "hdr", text |-> "object",
     body |-> [result |-> [session_id |-> "sid"]]]

\* a login that stores a credential before it looks at the status
AuthenticateStoresFirst(token, sid, r, encrypts) ==
    IF r.status # 200
    THEN [access_token |-> Credential(r.atoken), session_id |-> sid,
          raised |-> AuthenticationError]
    ELSE [access_token |-> Credential("hdr"), session_id |-> sid, raised |-> "none"]

\* async_authenticate on a client with the given token and session id, for
\* the response r: the token and session id it leaves, and what it raises
Authenticate(token, sid, r, encrypts) ==
    LET cookie_sid == IF r.cookie # NoField THEN r.cookie ELSE sid
        result == IF "result" \in DOMAIN r.body THEN r.body["result"] ELSE r.body
        Fails(s, e) == [access_token |-> token, session_id |-> s, raised |-> e]
    IN  IF r.status # 200 THEN Fails(sid, AuthenticationError)
        ELSE IF r.text # "object" THEN Fails(cookie_sid, AuthenticationError)
        ELSE IF "error" \in DOMAIN r.body
        THEN IF IsDict(r.body["error"])
             THEN Fails(cookie_sid, AuthenticationError)
             ELSE Fails(cookie_sid, AttributeError)
        ELSE IF ~IsDict(result) \/ "session_id" \notin DOMAIN result
        THEN Fails(cookie_sid, AuthenticationError)
        ELSE [access_token |->
                  Credential(IF Truthy(r.atoken) THEN r.atoken
                             ELSE GenerateAtoken(result["session_id"], encrypts)),
              session_id |-> cookie_sid,
              raised |-> "none"]

(* ------------------------------ state --------------------------------- *)
VARIABLES
    clock,             \* the reading int(time.time() * 1000) would give now
    access_token,      \* self._access_token: the credential, or the empty map
                       \* for None
    session_id,        \* self._session_id
    ping_task,         \* the coordinator's _ping_task, whose loop position is
                       \* that of the task Sender
    coordinator,       \* where the coordinator is in its life
    cancel_calls,      \* the tasks on which the step just taken has called
                       \* cancel(), each with its state before
    websocket,         \* self._websocket: a connection, or 0 for None
    websocket_task,    \* self._websocket_task: a listener task, or 0 for None
    conns,             \* each connection object: state, and the invocation
                       \* ids the server has read from it
    tasks,             \* each listener task: state, and the connection it reads
    pending_requests,  \* self._pending_requests: invocation id -> future,
                       \* a future named by the caller that created it
    message_handlers,  \* self._message_handlers
    device_states,     \* self._device_states
    delivered,         \* the log of the dispatch of the message just read: the ping
                       \* replies written and the handler calls made, in order
    devices_cache,     \* self._devices_cache
    call,              \* the device function each calling task is running
    message,           \* the transport message the listener read in the step
                       \* just taken (empty after a step of any other task)
    data,              \* the frame the listener dispatched in the step just
                       \* taken (NoFrame after a step of any other task)
    pc,                \* where each calling task is
    req,               \* the (method, arguments) of the call in progress
    invocation_id,     \* async_invoke_signalr's local invocation_id
    fut,               \* each invoke caller's future
    outcome,           \* what the call that ended in the step just taken
                       \* returned or raised
    timed_out,         \* the invocation ids of the calls that raised TimeoutError
    myconn,            \* async_connect_signalr: the connection it opened
    wire,              \* the text the step just taken wrote to the transport,
                       \* with the operation that wrote it and its request
    dpc                \* where the task running async_disconnect is

vars == <<clock, access_token, websocket, websocket_task, conns, tasks,
          pending_requests, message_handlers, device_states, delivered,
          devices_cache, call, message, data, pc, req, invocation_id, fut,
          outcome, timed_out, myconn, wire, dpc, session_id, ping_task,
          coordinator, cancel_calls>>

\* the client's fields that only connecting and disconnecting change
connVars == <<access_token, websocket, websocket_task, conns, tasks, myconn>>
\* the state only the notification dispatch and the device functions change
pushVars == <<message_handlers, device_states, devices_cache, call>>
\* the state of the calls
callVars == <<pending_requests, pc, req, invocation_id, fut, timed_out>>

NoFrame == [text |-> "none", type |-> 0, invocationId |-> NoField,
            result |-> NoField, error |-> NoField, target |-> NoField,
            arguments |-> <<>>]
NoFuture == [st |-> "none", val |-> NoField]
NoOutcome == [kind |-> "none", val |-> NoField]
NoReq == [method |-> NoField, arguments |-> <<>>]
NoCall == [op |-> "none", device_id |-> NoField]
NoTask == [st |-> "none", conn |-> 0]
NoConn == [st |-> "unused", rcvd |-> {}]
ClosedConn == [st |-> "closed", rcvd |-> {}]
ExitedTask == [st |-> "exited", conn |-> 0]
CancelledTask == [st |-> "cancelled", conn |-> 0]
EmptyMap == [x \in {} |-> 0]
NoOutcomes == [p \in Procs |-> NoOutcome]

\* dict[k] = v and dict.pop(k, None)
Put(f, k, v) == [x \in (DOMAIN f) \cup {k} |-> IF x = k THEN v ELSE f[x]]
Pop(f, k) == [x \in (DOMAIN f) \ {k} |-> f[x]]

\* the state after construction but for the cache of device states
InitButStates ==
    /\ clock = 0
    /\ access_token = NoToken
    /\ session_id = NoField
    /\ ping_task = "none"
    /\ coordinator = "new"
    /\ cancel_calls = {}
    /\ websocket = 0
    /\ websocket_task = 0
    /\ conns = [k \in Conns |-> NoConn]
    /\ tasks = [k \in Conns |-> NoTask]
    /\ pending_requests = EmptyMap
    /\ message_handlers = <<>>
    /\ delivered = <<>>
    /\ devices_cache = <<>>
    /\ call = [c \in Callers |-> NoCall]
    /\ message = <<>>
    /\ data = NoFrame
    /\ pc = [p \in Procs |-> "idle"]
    /\ req = [p \in Procs |-> NoReq]
    /\ invocation_id = [c \in Callers |-> NoField]
    /\ fut = [c \in Callers |-> NoFuture]
    /\ outcome = NoOutcomes
    /\ timed_out = {}
    /\ myconn = [p \in Procs |-> 0]
    /\ wire = NoWire
    /\ dpc = "idle"

Init == InitButStates /\ device_states = EmptyMap

(* --------------------- async_invoke_signalr / send -------------------- *)
\* the call of task p ends: it returns or raises
Done(p, kind, val) ==
    /\ pc' = [pc EXCEPT ![p] = "idle"]
    /\ outcome' = [NoOutcomes EXCEPT ![p] = [kind |-> kind, val |-> val]]
    /\ req' = [req EXCEPT ![p] = NoReq]

\* the token and session id after a login that succeeds, made when the
\* client has no token
LoggedIn ==
    IF HasToken(access_token)
    THEN [access_token |-> access_token, session_id |-> session_id]
    ELSE Authenticate(access_token, session_id, OkLogin, TRUE)

\* async_authenticate called by the task c and answered with r
AsyncAuthenticate(c, r, encrypts) ==
    /\ pc[c] = "idle"
    /\ LET a == Authenticate(access_token, session_id, r, encrypts) IN
          /\ access_token' = a.access_token
          /\ session_id' = a.session_id
          /\ Done(c, IF a.raised = "none" THEN "authenticated" ELSE a.raised, r)
    /\ data' = NoFrame
    /\ message' = <<>>
    /\ delivered' = <<>>
    /\ wire' = NoWire
    /\ cancel_calls' = {}
    /\ UNCHANGED <<clock, websocket, websocket_task, conns, tasks, myconn,
                   pushVars, pending_requests, invocation_id, fut, timed_out,
                   dpc, ping_task, coordinator>>

\* an invoke with no finally clause around the send: the id registered
\* stays in the table when send() raises
InvokeBodyKeepsEntry(c, method, arguments) ==
    IF websocket = 0
    THEN /\ Done(c, "not_connected", NoField)
         /\ wire' = NoWire
         /\ UNCHANGED <<pending_requests, invocation_id, fut, conns>>
    ELSE LET id == TimeId(clock) IN
         IF conns[websocket].st = "open"
         THEN /\ invocation_id' = [invocation_id EXCEPT ![c] = id]
              /\ pending_requests' = Put(pending_requests, id, c)
              /\ fut' = [fut EXCEPT ![c] = [st |-> "pending", val |-> NoField]]
              /\ wire' = [op |-> "invoke", method |-> method, arguments |-> arguments,
                          text |-> InvocationText(method, arguments, id)]
              /\ conns' = [conns EXCEPT ![websocket].rcvd = @ \cup {id}]
              /\ pc' = [pc EXCEPT ![c] = "waiting"]
              /\ outcome' = NoOutcomes
              /\ req' = [req EXCEPT ![c] = NoReq]
         ELSE /\ pending_requests' = Put(pending_requests, id, c)
              /\ Done(c, "closed", NoField)
              /\ wire' = NoWire
              /\ UNCHANGED <<invocation_id, fut, conns>>

\* async_invoke_signalr from the second check of self._websocket to the
\* first suspension: register the future, write the frame; a closed
\* connection raises in send() and the finally clause pops the id
InvokeBody(c, method, arguments) ==
    IF websocket = 0
    THEN /\ Done(c, "not_connected", NoField)
         /\ wire' = NoWire
         /\ UNCHANGED <<pending_requests, invocation_id, fut, conns>>
    ELSE LET id == TimeId(clock) IN
         IF conns[websocket].st = "open"
         THEN /\ invocation_id' = [invocation_id EXCEPT ![c] = id]
              /\ pending_requests' = Put(pending_requests, id, c)
              /\ fut' = [fut EXCEPT ![c] = [st |-> "pending", val |-> NoField]]
              /\ wire' = [op |-> "invoke", method |-> method, arguments |-> arguments,
                          text |-> InvocationText(method, arguments, id)]
              /\ conns' = [conns EXCEPT ![websocket].rcvd = @ \cup {id}]
              /\ pc' = [pc EXCEPT ![c] = "waiting"]
              /\ outcome' = NoOutcomes
              /\ req' = [req EXCEPT ![c] = NoReq]
         ELSE /\ pending_requests' = Pop(pending_requests, id)
              /\ Done(c, "closed", NoField)
              /\ wire' = NoWire
              /\ UNCHANGED <<invocation_id, fut, conns>>

\* a send that ends like an invoke, with the finally clause that pops the id
SendBodyPops(p, method, arguments) ==
    /\ IF websocket = 0
       THEN /\ Done(p, "not_connected", NoField)
            /\ wire' = NoWire
            /\ UNCHANGED conns
       ELSE IF conns[websocket].st = "open"
       THEN /\ wire' = [op |-> "send", method |-> method, arguments |-> arguments,
                        text |-> InvocationText(method, arguments, TimeId(clock))]
            /\ conns' = [conns EXCEPT ![websocket].rcvd = @ \cup {TimeId(clock)}]
            /\ Done(p, "sent", NoField)
       ELSE /\ Done(p, "closed", NoField)
            /\ wire' = NoWire
            /\ UNCHANGED conns
    /\ pending_requests' = Pop(pending_requests, TimeId(clock))
    /\ UNCHANGED <<invocation_id, fut>>

\* async_send_signalr_command from the second check of self._websocket on
SendBody(p, method, arguments) ==
    /\ IF websocket = 0
       THEN /\ Done(p, "not_connected", NoField)
            /\ wire' = NoWire
            /\ UNCHANGED conns
       ELSE IF conns[websocket].st = "open"
       THEN /\ wire' = [op |-> "send", method |-> method, arguments |-> arguments,
                        text |-> InvocationText(method, arguments, TimeId(clock))]
            /\ conns' = [conns EXCEPT ![websocket].rcvd = @ \cup {TimeId(clock)}]
            /\ Done(p, "sent", NoField)
       ELSE /\ Done(p, "closed", NoField)
            /\ wire' = NoWire
            /\ UNCHANGED conns
    /\ UNCHANGED <<pending_requests, invocation_id, fut>>

Body(p, method, arguments) ==
    IF p \in Callers THEN InvokeBody(p, method, arguments)
    ELSE SendBody(p, method, arguments)

\* a call that connects again when the transport it finds is closed
StartReconnects(p, method, arguments) ==
    /\ pc[p] = "idle"
    /\ p \in Callers => clock < MaxClock
    /\ data' = NoFrame
    /\ cancel_calls' = {}
    /\ UNCHANGED <<session_id, ping_task, coordinator>>
    /\ message' = <<>>
    /\ delivered' = <<>>
    /\ IF websocket = 0 \/ conns[websocket].st = "closed"
       THEN /\ pc' = [pc EXCEPT ![p] = "negotiate"]
            /\ req' = [req EXCEPT ![p] = [method |-> method, arguments |-> arguments]]
            /\ outcome' = NoOutcomes
            /\ wire' = NoWire
            /\ UNCHANGED <<pending_requests, invocation_id, fut, conns>>
       ELSE Body(p, method, arguments)
    /\ UNCHANGED <<clock, access_token, websocket, websocket_task, tasks,
                   myconn, pushVars, timed_out, dpc>>

\* a call starts: with no transport it first awaits async_connect_signalr
Start(p, method, arguments) ==
    /\ pc[p] = "idle"
    /\ p \in Callers => clock < MaxClock
    /\ data' = NoFrame
    /\ cancel_calls' = {}
    /\ UNCHANGED <<session_id, ping_task, coordinator>>
    /\ message' = <<>>
    /\ delivered' = <<>>
    /\ IF websocket = 0
       THEN /\ pc' = [pc EXCEPT ![p] = "negotiate"]
            /\ req' = [req EXCEPT ![p] = [method |-> method, arguments |-> arguments]]
            /\ outcome' = NoOutcomes
            /\ wire' = NoWire
            /\ UNCHANGED <<pending_requests, invocation_id, fut, conns>>
       ELSE Body(p, method, arguments)
    /\ UNCHANGED <<clock, access_token, websocket, websocket_task, tasks,
                   myconn, pushVars, timed_out, dpc>>

\* a wait on the future with no timer armed
TimeoutNotArmed(c) ==
    /\ FALSE
    /\ UNCHANGED vars

\* wait_for's timer fires on a call whose future is not done: the future is
\* cancelled (the timeout is 10 s, the clock counts milliseconds)
Timeout(c) ==
    /\ pc[c] = "waiting"
    /\ fut[c].st = "pending"
    /\ TimeId(clock) # invocation_id[c]
    /\ fut' = [fut EXCEPT ![c] = [st |-> "cancelled", val |-> NoField]]
    /\ data' = NoFrame
    /\ cancel_calls' = {}
    /\ UNCHANGED <<session_id, ping_task, coordinator>>
    /\ message' = <<>>
    /\ delivered' = <<>>
    /\ wire' = NoWire
    /\ outcome' = NoOutcomes
    /\ UNCHANGED <<clock, connVars, pushVars, pending_requests, pc, req,
                   invocation_id, timed_out, dpc>>

\* the outcome a done future gives the task awaiting it
OutcomeOf(f) ==
    CASE f.st = "result" -> [kind |-> "result", val |-> f.val]
      [] f.st = "exception" -> [kind |-> "error", val |-> f.val]
      [] OTHER -> [kind |-> "timeout", val |-> NoField]

\* a caller without the finally clause: its entry stays in the table
ResumeKeepsEntry(c) ==
    /\ pc[c] = "waiting"
    /\ fut[c].st # "pending"
    /\ pc' = [pc EXCEPT ![c] = "idle"]
    /\ outcome' = [NoOutcomes EXCEPT ![c] = OutcomeOf(fut[c])]
    /\ timed_out' = IF fut[c].st = "cancelled"
                    THEN timed_out \cup {invocation_id[c]} ELSE timed_out
    /\ fut' = [fut EXCEPT ![c] = NoFuture]
    /\ invocation_id' = [invocation_id EXCEPT ![c] = NoField]
    /\ data' = NoFrame
    /\ cancel_calls' = {}
    /\ UNCHANGED <<session_id, ping_task, coordinator>>
    /\ message' = <<>>
    /\ delivered' = <<>>
    /\ wire' = NoWire
    /\ UNCHANGED <<clock, connVars, pushVars, pending_requests, req, dpc>>

\* the caller runs again once its future is done: it returns or raises, and
\* the finally clause pops the caller's invocation id
Resume(c) ==
    /\ pc[c] = "waiting"
    /\ fut[c].st # "pending"
    /\ pending_requests' = Pop(pending_requests, invocation_id[c])
    /\ pc' = [pc EXCEPT ![c] = "idle"]
    /\ outcome' = [NoOutcomes EXCEPT ![c] = OutcomeOf(fut[c])]
    /\ timed_out' = IF fut[c].st = "cancelled"
                    THEN timed_out \cup {invocation_id[c]} ELSE timed_out
    /\ fut' = [fut EXCEPT ![c] = NoFuture]
    /\ invocation_id' = [invocation_id EXCEPT ![c] = NoField]
    /\ data' = NoFrame
    /\ cancel_calls' = {}
    /\ UNCHANGED <<session_id, ping_task, coordinator>>
    /\ message' = <<>>
    /\ delivered' = <<>>
    /\ wire' = NoWire
    /\ UNCHANGED <<clock, connVars, pushVars, req, dpc>>

(* ----------------------- async_connect_signalr ------------------------ *)
FreeConns == {k \in Conns : conns[k].st = "unused"}

\* authenticate, negotiate and websockets.connect succeed: the transport is
\* stored and the handshake written; the task awaits the acknowledgment
ConnectOpen(p) ==
    /\ pc[p] = "negotiate"
    /\ FreeConns # {}
    /\ LET k == CHOOSE x \in FreeConns : \A y \in FreeConns : x <= y IN
          /\ conns' = [conns EXCEPT ![k].st = "open"]
          /\ websocket' = k
          /\ myconn' = [myconn EXCEPT ![p] = k]
    /\ access_token' = LoggedIn.access_token
    /\ session_id' = LoggedIn.session_id
    /\ wire' = [op |-> "handshake", method |-> "", arguments |-> <<>>,
                text |-> HandshakeText]
    /\ pc' = [pc EXCEPT ![p] = "handshake"]
    /\ data' = NoFrame
    /\ cancel_calls' = {}
    /\ UNCHANGED <<ping_task, coordinator>>
    /\ message' = <<>>
    /\ delivered' = <<>>
    /\ outcome' = NoOutcomes
    /\ UNCHANGED <<clock, websocket_task, tasks, pushVars, pending_requests,
                   req, invocation_id, fut, timed_out, dpc>>

\* the login, the negotiate POST or websockets.connect fails
ConnectRefused(p, authenticated) ==
    /\ pc[p] = "negotiate"
    /\ access_token' = IF authenticated THEN LoggedIn.access_token ELSE access_token
    /\ session_id' = IF authenticated THEN LoggedIn.session_id ELSE session_id
    /\ Done(p, "connect_error", NoField)
    /\ data' = NoFrame
    /\ cancel_calls' = {}
    /\ UNCHANGED <<ping_task, coordinator>>
    /\ message' = <<>>
    /\ delivered' = <<>>
    /\ wire' = NoWire
    /\ UNCHANGED <<clock, websocket, websocket_task, conns, tasks, myconn,
                   pushVars, pending_requests, invocation_id, fut, timed_out, dpc>>

\* the state in which a listener task created now starts to read
\* self._websocket
ListenerStart ==
    IF websocket = 0 THEN "exited"
    ELSE IF conns[websocket].st # "open" THEN "exited"
    ELSE IF \E j \in Conns : tasks[j].st = "running" /\ tasks[j].conn = websocket
         THEN "exited"
    ELSE "running"

\* the acknowledgment arrives: the listener task is created, and the call
\* that connected goes on
ConnectAck(p) ==
    /\ pc[p] = "handshake"
    /\ conns[myconn[p]].st = "open"
    /\ p \in Callers => clock < MaxClock
    /\ tasks' = [tasks EXCEPT ![myconn[p]] =
                    IF ListenerStart = "running"
                    THEN [st |-> "running", conn |-> websocket] ELSE ExitedTask]
    /\ websocket_task' = myconn[p]
    /\ myconn' = [myconn EXCEPT ![p] = 0]
    /\ Body(p, req[p].method, req[p].arguments)
    /\ data' = NoFrame
    /\ cancel_calls' = {}
    /\ UNCHANGED <<session_id, ping_task, coordinator>>
    /\ message' = <<>>
    /\ delivered' = <<>>
    /\ UNCHANGED <<clock, access_token, websocket, pushVars, timed_out, dpc>>

\* no acknowledgment within 5 s, or the connection is lost: the call fails
\* and self._websocket keeps the transport
ConnectNoAck(p) ==
    /\ pc[p] = "handshake"
    /\ myconn' = [myconn EXCEPT ![p] = 0]
    /\ Done(p, "connect_error", NoField)
    /\ data' = NoFrame
    /\ cancel_calls' = {}
    /\ UNCHANGED <<session_id, ping_task, coordinator>>
    /\ message' = <<>>
    /\ delivered' = <<>>
    /\ wire' = NoWire
    /\ UNCHANGED <<clock, access_token, websocket, websocket_task, conns,
                   tasks, pushVars, pending_requests, invocation_id, fut,
                   timed_out, dpc>>

(* ------------------------- _websocket_listener ------------------------ *)
\* dict.get(k) of a dict of strings
Get(d, k) == IF k \in DOMAIN d THEN d[k] ELSE NoField
\* dict.update
Merge(a, b) ==
    [k \in (DOMAIN a) \cup (DOMAIN b) |-> IF k \in DOMAIN b THEN b[k] ELSE a[k]]

\* a cache that stores the update in place of the entry
UpdateDeviceStateReplaces(ds, device_id, state_data) ==
    Put(ds, device_id, state_data)

\* update_device_state: dict.update on the entry, or a new entry
UpdateDeviceState(ds, device_id, state_data) ==
    IF device_id \in DOMAIN ds
    THEN [ds EXCEPT ![device_id] = Merge(@, state_data)]
    ELSE Put(ds, device_id, state_data)

\* target == "EventObject": an argument updates the cache when it has a
\* device_id and a non-empty device_state; an argument that is no object
\* raises after the arguments before it were merged
RECURSIVE EventObjectArgs(_, _, _)
EventObjectArgs(S, arguments, i) ==
    IF i > Len(arguments) THEN S
    ELSE LET arg == arguments[i] IN
         IF ~IsDict(arg) THEN [S EXCEPT !.aborted = TRUE]
         ELSE LET device_id == Get(arg, "device_id")
                  has_state == /\ "device_state" \in DOMAIN arg
                               /\ DOMAIN arg["device_state"] # {}
              IN  EventObjectArgs(
                      IF Truthy(device_id) /\ has_state
                      THEN [S EXCEPT !.device_states =
                               UpdateDeviceState(@, device_id, arg["device_state"])]
                      ELSE S,
                      arguments, i + 1)

\* target in (DeviceStateUpdate, StateUpdate, DeviceUpdate): the whole
\* argument is merged under device_id or id
RECURSIVE StateUpdateArgs(_, _, _)
StateUpdateArgs(S, arguments, i) ==
    IF i > Len(arguments) THEN S
    ELSE LET arg == arguments[i] IN
         IF ~IsDict(arg) THEN [S EXCEPT !.aborted = TRUE]
         ELSE LET device_id == IF Truthy(Get(arg, "device_id"))
                               THEN Get(arg, "device_id") ELSE Get(arg, "id")
              IN  StateUpdateArgs(
                      IF Truthy(device_id)
                      THEN [S EXCEPT !.device_states =
                               UpdateDeviceState(@, device_id, arg)]
                      ELSE S,
                      arguments, i + 1)

\* the part of the state a message's dispatch reads and writes, with the
\* index of the frame in dispatch and whether an exception has ended the
\* loop over the frames
ListenerState ==
    [fut |-> fut, wire |-> NoWire, device_states |-> device_states,
     delivered |-> <<>>, data |-> NoFrame, index |-> 0, aborted |-> FALSE]

\* an entry of the log of a message's dispatch: a ping reply written, or a
\* handler called with a frame while the cache was `seen`
Effect(kind, S, pos, handler, f) ==
    [kind |-> kind, index |-> S.index, pos |-> pos, handler |-> handler,
     frame |-> f, seen |-> S.device_states,
     raised |-> handler \in RaisingHandlers]

\* _send_ping_response: written to self._websocket, errors swallowed
SendPingResponse(S) ==
    IF websocket # 0 /\ conns[websocket].st = "open"
    THEN [S EXCEPT !.wire = [op |-> "ping", method |-> "", arguments |-> <<>>,
                             text |-> PingText],
                   !.delivered = Append(@, Effect("ping", S, 0, "", S.data))]
    ELSE S

\* a mutant of Completion: the future is resolved without asking done()
CompletionUnguarded(S, f) ==
    IF Truthy(f.invocationId) /\ f.invocationId \in DOMAIN pending_requests
    THEN LET c == pending_requests[f.invocationId] IN
         IF Truthy(f.error)
         THEN [S EXCEPT !.fut[c] = [st |-> "exception", val |-> f.error]]
         ELSE [S EXCEPT !.fut[c] = [st |-> "result", val |-> f.result]]
    ELSE S

\* a completion that is also handed to the registered handlers
CompletionNotifies(S, f) ==
    LET T == IF Truthy(f.invocationId) /\ f.invocationId \in DOMAIN pending_requests
             THEN LET c == pending_requests[f.invocationId] IN
                  IF S.fut[c].st = "pending"
                  THEN IF Truthy(f.error)
                       THEN [S EXCEPT !.fut[c] = [st |-> "exception", val |-> f.error]]
                       ELSE [S EXCEPT !.fut[c] = [st |-> "result", val |-> f.result]]
                  ELSE S
             ELSE S
    IN  [T EXCEPT !.delivered =
            @ \o [i \in 1..Len(message_handlers) |->
                     Effect("handler", T, i, message_handlers[i], f)]]

\* message_type == 3: resolve the future registered under the invocation id
Completion(S, f) ==
    IF Truthy(f.invocationId) /\ f.invocationId \in DOMAIN pending_requests
    THEN LET c == pending_requests[f.invocationId] IN
         IF S.fut[c].st = "pending"
         THEN IF Truthy(f.error)
              THEN [S EXCEPT !.fut[c] = [st |-> "exception", val |-> f.error]]
              ELSE [S EXCEPT !.fut[c] = [st |-> "result", val |-> f.result]]
         ELSE S
    ELSE S

\* message_type == 1: the cache updates by target
Invocation(S, f) ==
    IF f.target = "EventObject"
    THEN EventObjectArgs(S, f.arguments, 1)
    ELSE IF f.target \in {"DeviceStateUpdate", "StateUpdate", "DeviceUpdate"}
    THEN StateUpdateArgs(S, f.arguments, 1)
    ELSE S

\* handlers called with no try around the call: the first exception ends
\* the loop over the handlers and the loop over the frames
CallHandlersUncaught(S, f) ==
    IF S.aborted THEN S
    ELSE
    LET raising == {i \in 1..Len(message_handlers) :
                       message_handlers[i] \in RaisingHandlers}
        last == IF raising = {} THEN Len(message_handlers)
                ELSE CHOOSE i \in raising : \A j \in raising : i <= j
    IN  [S EXCEPT !.delivered =
            @ \o [i \in 1..last |->
                     Effect("handler", S, i, message_handlers[i], f)],
                  !.aborted = (raising # {})]

\* every registered handler is called with the frame, in the order of the
\* list; what a handler raises is caught and logged
CallHandlers(S, f) ==
    IF S.aborted THEN S
    ELSE [S EXCEPT !.delivered =
            @ \o [i \in 1..Len(message_handlers) |->
                     Effect("handler", S, i, message_handlers[i], f)]]

\* a mutant of DispatchInvocation: the handlers run before the cache update
DispatchHandlersFirst(S, f) == Invocation(CallHandlers(S, f), f)

\* a type 1 frame: the cache update, then the handlers
DispatchInvocation(S, f) == CallHandlers(Invocation(S, f), f)

\* a loop that hands the handlers the invocations only
RECURSIVE ProcessFramesKnownTypes(_, _, _)
ProcessFramesKnownTypes(S, messages, i) ==
    IF i > Len(messages) \/ S.aborted THEN S
    ELSE LET f == messages[i]
             R == [S EXCEPT !.data = f, !.index = i]
         IN  CASE f.text = "blank" -> ProcessFramesKnownTypes(S, messages, i + 1)
               [] f.text \in {"garbage", "array"} -> R
               [] f.type = 6 ->
                    ProcessFramesKnownTypes(SendPingResponse(R), messages, i + 1)
               [] f.type = 3 ->
                    ProcessFramesKnownTypes(Completion(R, f), messages, i + 1)
               [] f.type = 1 ->
                    ProcessFramesKnownTypes(DispatchInvocation(R, f), messages, i + 1)
               [] OTHER -> ProcessFramesKnownTypes(R, messages, i + 1)

\* a loop that takes the frames of a message from the last to the first
RECURSIVE ProcessFramesBackwards(_, _, _)
ProcessFramesBackwards(S, messages, n) ==
    IF n > Len(messages) \/ S.aborted THEN S
    ELSE LET i == Len(messages) + 1 - n
             f == messages[i]
             R == [S EXCEPT !.data = f, !.index = i]
         IN  CASE f.text = "blank" -> ProcessFramesBackwards(S, messages, n + 1)
               [] f.text \in {"garbage", "array"} -> R
               [] f.type = 6 ->
                    ProcessFramesBackwards(SendPingResponse(R), messages, n + 1)
               [] f.type = 3 ->
                    ProcessFramesBackwards(Completion(R, f), messages, n + 1)
               [] f.type = 1 ->
                    ProcessFramesBackwards(DispatchInvocation(R, f), messages, n + 1)
               [] OTHER ->
                    ProcessFramesBackwards(CallHandlers(R, f), messages, n + 1)

\* the body of the loop over the frames of one transport message: a blank
\* frame is skipped; a frame json.loads rejects, or one that is no object,
\* raises out of the loop over the frames and ends the message, and so does
\* any other exception of a frame's dispatch
RECURSIVE ProcessFrames(_, _, _)
ProcessFrames(S, messages, i) ==
    IF i > Len(messages) \/ S.aborted THEN S
    ELSE LET f == messages[i]
             R == [S EXCEPT !.data = f, !.index = i]
         IN  CASE f.text = "blank" -> ProcessFrames(S, messages, i + 1)
               [] f.text \in {"garbage", "array"} -> R
               [] f.type = 6 -> ProcessFrames(SendPingResponse(R), messages, i + 1)
               [] f.type = 3 -> ProcessFrames(Completion(R, f), messages, i + 1)
               [] f.type = 1 ->
                    ProcessFrames(DispatchInvocation(R, f), messages, i + 1)
               [] OTHER -> ProcessFrames(CallHandlers(R, f), messages, i + 1)

\* a listener whose task ends when the dispatch of a message raises
ListenerEndsOnError(k, messages) ==
    /\ tasks[k].st = "running"
    /\ conns[tasks[k].conn].st = "open"
    /\ LET S == ProcessFrames(ListenerState, messages, 1) IN
          /\ fut' = S.fut
          /\ wire' = S.wire
          /\ device_states' = S.device_states
          /\ delivered' = S.delivered
          /\ data' = S.data
          /\ tasks' = IF S.aborted THEN [tasks EXCEPT ![k] = ExitedTask] ELSE tasks
    /\ message' = messages
    /\ outcome' = NoOutcomes
    /\ cancel_calls' = {}
    /\ UNCHANGED <<session_id, ping_task, coordinator>>
    /\ UNCHANGED <<clock, access_token, websocket, websocket_task, conns, myconn,
                   message_handlers, devices_cache, call,
                   pending_requests, pc, req, invocation_id, timed_out, dpc>>

\* one transport message read by a running listener task
Listener(k, messages) ==
    /\ tasks[k].st = "running"
    /\ conns[tasks[k].conn].st = "open"
    /\ LET S == ProcessFrames(ListenerState, messages, 1) IN
          /\ fut' = S.fut
          /\ wire' = S.wire
          /\ device_states' = S.device_states
          /\ delivered' = S.delivered
          /\ data' = S.data
    /\ message' = messages
    /\ outcome' = NoOutcomes
    /\ cancel_calls' = {}
    /\ UNCHANGED <<session_id, ping_task, coordinator>>
    /\ UNCHANGED <<clock, connVars, message_handlers, devices_cache, call,
                   pending_requests, pc, req, invocation_id, timed_out, dpc>>

\* the connection is lost or closed by the server: the listener reading it
\* leaves its loop (ConnectionClosed) and the task ends
ServerClose(k) ==
    /\ conns[k].st = "open"
    /\ conns' = [conns EXCEPT ![k] = ClosedConn]
    /\ tasks' = [j \in Conns |->
                    IF tasks[j].st = "running" /\ tasks[j].conn = k
                    THEN ExitedTask ELSE tasks[j]]
    /\ data' = NoFrame
    /\ cancel_calls' = {}
    /\ UNCHANGED <<session_id, ping_task, coordinator>>
    /\ message' = <<>>
    /\ delivered' = <<>>
    /\ wire' = NoWire
    /\ outcome' = NoOutcomes
    /\ UNCHANGED <<clock, access_token, websocket, websocket_task, myconn,
                   pushVars, callVars, dpc>>

(* --------------------------- async_disconnect -------------------------- *)
\* the second half: close the transport held, if any, and await the close
DisconnectClose ==
    IF websocket # 0
    THEN /\ conns' = [conns EXCEPT ![websocket] = ClosedConn]
         /\ tasks' = [j \in Conns |->
                         IF tasks[j].st = "running" /\ tasks[j].conn = websocket
                         THEN ExitedTask ELSE tasks[j]]
         /\ dpc' = "closing"
    ELSE /\ dpc' = "idle"
         /\ UNCHANGED <<conns, tasks>>

\* async_disconnect up to its first suspension: cancel the listener task and
\* await it; a task that has ended already is awaited without suspending
DisconnectEnter ==
    /\ dpc = "idle"
    /\ IF websocket_task # 0 /\ tasks[websocket_task].st = "running"
       THEN /\ tasks' = [tasks EXCEPT ![websocket_task] = CancelledTask]
            /\ dpc' = "await_task"
            /\ UNCHANGED <<websocket_task, conns>>
       ELSE /\ websocket_task' = 0
            /\ DisconnectClose
    /\ data' = NoFrame
    /\ message' = <<>>
    /\ delivered' = <<>>
    /\ wire' = NoWire
    /\ outcome' = NoOutcomes
    /\ UNCHANGED <<clock, access_token, session_id, websocket, myconn, pushVars,
                   callVars>>

\* self._websocket_task.cancel(), called on the task held whatever its state
ListenerCancelCalls ==
    IF websocket_task # 0
    THEN {[task |-> "listener", was |-> tasks[websocket_task].st]}
    ELSE {}

\* async_disconnect called by a task of its own
DisconnectBegin ==
    /\ DisconnectEnter
    /\ cancel_calls' = ListenerCancelCalls
    /\ UNCHANGED <<ping_task, coordinator>>

\* the cancelled task has ended: self._websocket_task = None, then the close
DisconnectTaskAwaited ==
    /\ dpc = "await_task"
    /\ websocket_task' = 0
    /\ DisconnectClose
    /\ data' = NoFrame
    /\ cancel_calls' = {}
    /\ UNCHANGED <<session_id, ping_task, coordinator>>
    /\ message' = <<>>
    /\ delivered' = <<>>
    /\ wire' = NoWire
    /\ outcome' = NoOutcomes
    /\ UNCHANGED <<clock, access_token, websocket, myconn, pushVars, callVars>>

\* close() has returned: self._websocket = None
DisconnectFinish ==
    /\ dpc = "closing"
    /\ websocket' = 0
    /\ dpc' = "idle"
    /\ data' = NoFrame
    /\ cancel_calls' = {}
    /\ UNCHANGED <<session_id, ping_task, coordinator>>
    /\ message' = <<>>
    /\ delivered' = <<>>
    /\ wire' = NoWire
    /\ outcome' = NoOutcomes
    /\ UNCHANGED <<clock, access_token, websocket_task, conns, tasks, myconn,
                   pushVars, callVars>>

(* ---------------------- the normalized device state -------------------- *)
\* the status labels of _parse_device_state (Russian texts in the source:
\* unknown, armed, disarmed, service mode)
LabelUnknown == "unknown"
LabelArmed == "armed"
LabelDisarmed == "disarmed"
LabelService == "service"

\* the guard values of the vendor; those whose text contains "SafeGuard"
GuardsWithSafeGuard == {"SafeGuardOn", "HijackSafeGuard"}
GuardValues == GuardsWithSafeGuard \cup {"Off", "Alarm"}

\* dict.get(k, "") of a dict of strings
GetOr(d, k, default) == IF k \in DOMAIN d THEN d[k] ELSE default
\* x or 0, the number 0 written "0"
OrZero(x) == IF x \in {NoField, "", "0"} THEN "0" ELSE x

\* data.get("device_state") or data.get("state") or data.get("data") or
\* data: a nested bag stands in for the bag when it is not empty
Nested(raw, k) == k \in DOMAIN raw /\ DOMAIN raw[k] # {}
StateData(raw) ==
    IF Nested(raw, "device_state") THEN raw["device_state"]
    ELSE IF Nested(raw, "state") THEN raw["state"]
    ELSE IF Nested(raw, "data") THEN raw["data"]
    ELSE raw

\* a label in which the guard overrides valet = On
StateTextGuardFirst(state_data) ==
    LET guard_state == GetOr(state_data, "guard", "") IN
    IF guard_state \in GuardsWithSafeGuard THEN LabelArmed
    ELSE IF guard_state = "Off" THEN LabelDisarmed
    ELSE IF GetOr(state_data, "valet", "") = "On" THEN LabelService
    ELSE LabelUnknown

\* the label: guard first, then valet = On over it
StateText(state_data) ==
    LET guard_state == GetOr(state_data, "guard", "")
        by_guard == IF guard_state \in GuardsWithSafeGuard THEN LabelArmed
                    ELSE IF guard_state = "Off" THEN LabelDisarmed
                    ELSE LabelUnknown
    IN  IF GetOr(state_data, "valet", "") = "On" THEN LabelService ELSE by_guard

ParseDeviceState(raw) ==
    LET state_data == StateData(raw) IN
    [state |-> StateText(state_data),
     balance |-> Get(state_data, "balance"),
     temperature_outside |-> Get(state_data, "outside_temp"),
     temperature_engine |-> Get(state_data, "engine_temp"),
     temperature_interior |-> Get(state_data, "inside_temp"),
     voltage |-> Get(state_data, "accum_voltage"),
     rpm |-> OrZero(Get(state_data, "rpm")),
     fuel |-> Get(state_data, "fuel_level"),
     speed |-> OrZero(Get(state_data, "speed")),
     mileage |-> Get(state_data, "mileage"),
     autolaunch |-> Get(state_data, "autolaunch"),
     guard |-> GetOr(state_data, "guard", ""),
     valet |-> GetOr(state_data, "valet", ""),
     engine |-> Get(state_data, "ignition_switch"),
     lat |-> Get(state_data, "latitude"),
     lon |-> Get(state_data, "longitude"),
     connected |-> Get(state_data, "connected")]

\* _get_empty_state
EmptyState ==
    [state |-> LabelUnknown, balance |-> NoField,
     temperature_outside |-> NoField, temperature_engine |-> NoField,
     temperature_interior |-> NoField, voltage |-> NoField, rpm |-> "0",
     fuel |-> NoField, speed |-> "0", mileage |-> NoField,
     autolaunch |-> NoField, guard |-> NoField, valet |-> NoField,
     engine |-> NoField, lat |-> NoField, lon |-> NoField]

(* ------------------------ async_get_device_state ---------------------- *)
\* what async_get_device_state returns: the normalized state, with the
\* device asked for, where the data came from and the bag that was parsed
StateResult(device_id, source, raw, state) ==
    [device_id |-> device_id, source |-> source, raw |-> raw, state |-> state]

\* a call that raises when it has no data
NoDataRaises(c, device_id) == Done(c, "error", NoField)

\* return self._get_empty_state()
NoData(c, device_id) ==
    Done(c, "state", StateResult(device_id, "empty", EmptyMap, EmptyState))

\* a call that asks the server first and reads the cache when it holds no
\* transport
GetDeviceStateQueryFirst(c, device_id) ==
    /\ pc[c] = "idle"
    /\ clock < MaxClock
    /\ IF websocket # 0 /\ conns[websocket].st = "open"
       THEN /\ InvokeBody(c, "GetDeviceInfoTp", <<[device_id |-> device_id]>>)
            /\ call' = [call EXCEPT ![c] = [op |-> "get_device_state",
                                             device_id |-> device_id]]
       ELSE IF device_id \in DOMAIN device_states
       THEN /\ Done(c, "state",
                    StateResult(device_id, "cache", device_states[device_id],
                                ParseDeviceState(device_states[device_id])))
            /\ wire' = NoWire
            /\ UNCHANGED <<pending_requests, invocation_id, fut, conns, call>>
       ELSE /\ pending_requests' = IF websocket # 0
                                   THEN Pop(pending_requests, TimeId(clock))
                                   ELSE pending_requests
            /\ NoData(c, device_id)
            /\ wire' = NoWire
            /\ UNCHANGED <<invocation_id, fut, conns, call>>
    /\ data' = NoFrame
    /\ cancel_calls' = {}
    /\ UNCHANGED <<session_id, ping_task, coordinator>>
    /\ message' = <<>>
    /\ delivered' = <<>>
    /\ UNCHANGED <<clock, access_token, websocket, websocket_task, tasks, myconn,
                   message_handlers, device_states, devices_cache, timed_out, dpc>>

\* the call up to its first suspension: the cached entry is parsed and
\* returned; with no entry and a transport GetDeviceInfoTp is invoked, and
\* an invoke that raises at once is caught; else the empty state
GetDeviceState(c, device_id) ==
    /\ pc[c] = "idle"
    /\ clock < MaxClock
    /\ IF device_id \in DOMAIN device_states
       THEN /\ Done(c, "state",
                    StateResult(device_id, "cache", device_states[device_id],
                                ParseDeviceState(device_states[device_id])))
            /\ wire' = NoWire
            /\ UNCHANGED <<pending_requests, invocation_id, fut, conns, call>>
       ELSE IF websocket # 0 /\ conns[websocket].st = "open"
       THEN /\ InvokeBody(c, "GetDeviceInfoTp", <<[device_id |-> device_id]>>)
            /\ call' = [call EXCEPT ![c] = [op |-> "get_device_state",
                                             device_id |-> device_id]]
       ELSE /\ pending_requests' = IF websocket # 0
                                   THEN Pop(pending_requests, TimeId(clock))
                                   ELSE pending_requests
            /\ NoData(c, device_id)
            /\ wire' = NoWire
            /\ UNCHANGED <<invocation_id, fut, conns, call>>
    /\ data' = NoFrame
    /\ cancel_calls' = {}
    /\ UNCHANGED <<session_id, ping_task, coordinator>>
    /\ message' = <<>>
    /\ delivered' = <<>>
    /\ UNCHANGED <<clock, access_token, websocket, websocket_task, tasks, myconn,
                   message_handlers, device_states, devices_cache, timed_out, dpc>>

\* the invoke has ended: its finally clause pops the id; a result that is
\* not empty replaces the cache entry of the device and is parsed; an empty
\* result, an error or a timeout gives the empty state
GetDeviceStateResume(c) ==
    /\ pc[c] = "waiting"
    /\ call[c].op = "get_device_state"
    /\ fut[c].st # "pending"
    /\ pending_requests' = Pop(pending_requests, invocation_id[c])
    /\ timed_out' = IF fut[c].st = "cancelled"
                    THEN timed_out \cup {invocation_id[c]} ELSE timed_out
    /\ LET device_id == call[c].device_id
           result == fut[c].val
       IN  IF fut[c].st = "result" /\ DOMAIN result # {}
           THEN /\ device_states' = Put(device_states, device_id, result)
                /\ Done(c, "state", StateResult(device_id, "query", result,
                                                ParseDeviceState(result)))
           ELSE /\ device_states' = device_states
                /\ NoData(c, device_id)
    /\ fut' = [fut EXCEPT ![c] = NoFuture]
    /\ invocation_id' = [invocation_id EXCEPT ![c] = NoField]
    /\ call' = [call EXCEPT ![c] = NoCall]
    /\ data' = NoFrame
    /\ cancel_calls' = {}
    /\ UNCHANGED <<session_id, ping_task, coordinator>>
    /\ message' = <<>>
    /\ delivered' = <<>>
    /\ wire' = NoWire
    /\ UNCHANGED <<clock, connVars, message_handlers, devices_cache, dpc>>

(* --------------------------- async_get_devices ------------------------- *)
InGetDevices == [op |-> "get_devices", device_id |-> NoField]
\* the call is in the connect that async_invoke_signalr makes itself
InGetDevicesInvoke == [op |-> "get_devices_invoke", device_id |-> NoField]

\* the devices of a result: {"data": {"devices": [...]}} or {"devices":
\* [...]}; any other dict has none (a result that is a list is not modelled)
DevicesOf(result) ==
    IF "data" \in DOMAIN result /\ "devices" \in DOMAIN result["data"]
    THEN result["data"]["devices"]
    ELSE IF "devices" \in DOMAIN result THEN result["devices"]
    ELSE <<>>

\* a loop that stores no device
StoreNoDevices(ds, devices, i) == ds

\* for device in devices: self._device_states[device_id] = device
RECURSIVE StoreDevices(_, _, _)
StoreDevices(ds, devices, i) ==
    IF i > Len(devices) THEN ds
    ELSE LET device == devices[i]
             device_id == IF Truthy(Get(device, "device_id"))
                          THEN Get(device, "device_id") ELSE Get(device, "id")
         IN  StoreDevices(IF Truthy(device_id) THEN Put(ds, device_id, device) ELSE ds,
                          devices, i + 1)

\* the call of c ends without touching the caches
GetDevicesDone(c, kind, val) ==
    /\ Done(c, kind, val)
    /\ call' = [call EXCEPT ![c] = NoCall]
    /\ UNCHANGED <<device_states, devices_cache>>

\* GetDevices is invoked on the transport held: the frame is written and
\* the call waits; what the invoke raises at once is caught and the call
\* falls back to the cache
GetDevicesInvoke(c) ==
    IF conns[websocket].st = "open"
    THEN /\ InvokeBody(c, "GetDevices", <<"{}">>)
         /\ call' = [call EXCEPT ![c] = InGetDevices]
         /\ UNCHANGED <<device_states, devices_cache>>
    ELSE /\ pending_requests' = Pop(pending_requests, TimeId(clock))
         /\ GetDevicesDone(c, "devices", devices_cache)
         /\ wire' = NoWire
         /\ UNCHANGED <<invocation_id, fut, conns>>

\* a call that asks the server whatever the cache holds
GetDevicesBodyNoCache(c) ==
    IF websocket = 0
    THEN /\ pc' = [pc EXCEPT ![c] = "negotiate"]
         /\ call' = [call EXCEPT ![c] = InGetDevices]
         /\ outcome' = NoOutcomes
         /\ wire' = NoWire
         /\ UNCHANGED <<pending_requests, invocation_id, fut, conns, req,
                        device_states, devices_cache>>
    ELSE GetDevicesInvoke(c)

\* from the check of the cache on: the cached list is returned; with no
\* transport the call awaits async_connect_signalr; else it invokes
GetDevicesBody(c) ==
    IF devices_cache # <<>>
    THEN /\ GetDevicesDone(c, "devices", devices_cache)
         /\ wire' = NoWire
         /\ UNCHANGED <<pending_requests, invocation_id, fut, conns>>
    ELSE IF websocket = 0
    THEN /\ pc' = [pc EXCEPT ![c] = "negotiate"]
         /\ call' = [call EXCEPT ![c] = InGetDevices]
         /\ outcome' = NoOutcomes
         /\ wire' = NoWire
         /\ UNCHANGED <<pending_requests, invocation_id, fut, conns, req,
                        device_states, devices_cache>>
    ELSE GetDevicesInvoke(c)

\* the call starts: with no token it first awaits async_authenticate
GetDevices(c) ==
    /\ pc[c] = "idle"
    /\ clock < MaxClock
    /\ IF ~HasToken(access_token)
       THEN /\ pc' = [pc EXCEPT ![c] = "login"]
            /\ call' = [call EXCEPT ![c] = InGetDevices]
            /\ outcome' = NoOutcomes
            /\ wire' = NoWire
            /\ UNCHANGED <<pending_requests, invocation_id, fut, conns, req,
                           device_states, devices_cache>>
       ELSE GetDevicesBody(c)
    /\ data' = NoFrame
    /\ cancel_calls' = {}
    /\ UNCHANGED <<session_id, ping_task, coordinator>>
    /\ message' = <<>>
    /\ delivered' = <<>>
    /\ UNCHANGED <<clock, access_token, websocket, websocket_task, tasks, myconn,
                   message_handlers, timed_out, dpc>>

\* async_authenticate returns: the token is stored and the call goes on, or
\* it raises and the call raises PrizrakAPIError
GetDevicesLogin(c, authenticated) ==
    /\ pc[c] = "login"
    /\ clock < MaxClock
    /\ access_token' = IF authenticated THEN LoggedIn.access_token ELSE access_token
    /\ session_id' = IF authenticated THEN LoggedIn.session_id ELSE session_id
    /\ IF authenticated
       THEN GetDevicesBody(c)
       ELSE /\ GetDevicesDone(c, "error", NoField)
            /\ wire' = NoWire
            /\ UNCHANGED <<pending_requests, invocation_id, fut, conns>>
    /\ data' = NoFrame
    /\ cancel_calls' = {}
    /\ UNCHANGED <<ping_task, coordinator>>
    /\ message' = <<>>
    /\ delivered' = <<>>
    /\ UNCHANGED <<clock, websocket, websocket_task, tasks, myconn,
                   message_handlers, timed_out, dpc>>

\* async_connect_signalr raises in the call: PrizrakAPIError; raised in the
\* connect of async_invoke_signalr it is caught and the call falls back to
\* the device cache
GetDevicesConnectFailed(c) ==
    /\ pc[c] \in {"negotiate", "handshake"}
    /\ call[c] \in {InGetDevices, InGetDevicesInvoke}
    /\ myconn' = [myconn EXCEPT ![c] = 0]
    /\ IF call[c] = InGetDevices
       THEN GetDevicesDone(c, "error", NoField)
       ELSE GetDevicesDone(c, "devices", devices_cache)
    /\ data' = NoFrame
    /\ cancel_calls' = {}
    /\ UNCHANGED <<session_id, ping_task, coordinator>>
    /\ message' = <<>>
    /\ delivered' = <<>>
    /\ wire' = NoWire
    /\ UNCHANGED <<clock, access_token, websocket, websocket_task, conns, tasks,
                   message_handlers, pending_requests, invocation_id, fut,
                   timed_out, dpc>>

\* async_connect_signalr returns in the call: the listener task is
\* created, then async_invoke_signalr runs, which connects again when it
\* finds no transport
GetDevicesConnectAck(c) ==
    /\ pc[c] = "handshake"
    /\ call[c] \in {InGetDevices, InGetDevicesInvoke}
    /\ conns[myconn[c]].st = "open"
    /\ clock < MaxClock
    /\ tasks' = [tasks EXCEPT ![myconn[c]] =
                    IF ListenerStart = "running"
                    THEN [st |-> "running", conn |-> websocket] ELSE ExitedTask]
    /\ websocket_task' = myconn[c]
    /\ myconn' = [myconn EXCEPT ![c] = 0]
    /\ IF websocket = 0
       THEN /\ pc' = [pc EXCEPT ![c] = "negotiate"]
            /\ call' = [call EXCEPT ![c] = InGetDevicesInvoke]
            /\ outcome' = NoOutcomes
            /\ wire' = NoWire
            /\ UNCHANGED <<pending_requests, invocation_id, fut, conns, req,
                           device_states, devices_cache>>
       ELSE GetDevicesInvoke(c)
    /\ data' = NoFrame
    /\ cancel_calls' = {}
    /\ UNCHANGED <<session_id, ping_task, coordinator>>
    /\ message' = <<>>
    /\ delivered' = <<>>
    /\ UNCHANGED <<clock, access_token, websocket, message_handlers, timed_out, dpc>>

\* the invoke has ended: its finally clause pops the id; the devices of the
\* result become the device cache and each replaces the cached state of its
\* id; with no devices, an error or a timeout the call falls back to the
\* device cache
GetDevicesResume(c) ==
    /\ pc[c] = "waiting"
    /\ call[c] = InGetDevices
    /\ fut[c].st # "pending"
    /\ pending_requests' = Pop(pending_requests, invocation_id[c])
    /\ timed_out' = IF fut[c].st = "cancelled"
                    THEN timed_out \cup {invocation_id[c]} ELSE timed_out
    /\ LET devices == IF fut[c].st = "result" THEN DevicesOf(fut[c].val) ELSE <<>>
       IN  IF devices # <<>>
           THEN /\ devices_cache' = devices
                /\ device_states' = StoreDevices(device_states, devices, 1)
                /\ Done(c, "devices", devices)
           ELSE /\ UNCHANGED <<device_states, devices_cache>>
                /\ Done(c, "devices", devices_cache)
    /\ fut' = [fut EXCEPT ![c] = NoFuture]
    /\ invocation_id' = [invocation_id EXCEPT ![c] = NoField]
    /\ call' = [call EXCEPT ![c] = NoCall]
    /\ data' = NoFrame
    /\ cancel_calls' = {}
    /\ UNCHANGED <<session_id, ping_task, coordinator>>
    /\ message' = <<>>
    /\ delivered' = <<>>
    /\ wire' = NoWire
    /\ UNCHANGED <<clock, connVars, message_handlers, dpc>>

(* ------------------------- add_message_handler ------------------------ *)
\* a registry that puts the new callback first
AddMessageHandlerFirst(h) ==
    /\ Len(message_handlers) < MaxHandlers
    /\ message_handlers' = <<h>> \o message_handlers
    /\ data' = NoFrame
    /\ cancel_calls' = {}
    /\ UNCHANGED <<session_id, ping_task, coordinator>>
    /\ message' = <<>>
    /\ delivered' = <<>>
    /\ wire' = NoWire
    /\ outcome' = NoOutcomes
    /\ UNCHANGED <<clock, connVars, device_states, devices_cache, call,
                   callVars, dpc>>

\* self._message_handlers.append(handler)
AddMessageHandler(h) ==
    /\ Len(message_handlers) < MaxHandlers
    /\ message_handlers' = Append(message_handlers, h)
    /\ data' = NoFrame
    /\ cancel_calls' = {}
    /\ UNCHANGED <<session_id, ping_task, coordinator>>
    /\ message' = <<>>
    /\ delivered' = <<>>
    /\ wire' = NoWire
    /\ outcome' = NoOutcomes
    /\ UNCHANGED <<clock, connVars, device_states, devices_cache, call,
                   callVars, dpc>>

(* ------------------------------ the clock ----------------------------- *)
Tick ==
    /\ clock < MaxClock
    /\ clock' = clock + 1
    /\ data' = NoFrame
    /\ cancel_calls' = {}
    /\ UNCHANGED <<session_id, ping_task, coordinator>>
    /\ message' = <<>>
    /\ delivered' = <<>>
    /\ wire' = NoWire
    /\ outcome' = NoOutcomes
    /\ UNCHANGED <<connVars, pushVars, callVars, dpc>>

(* ------------------------- frames of the server ----------------------- *)
ObjectFrame(type, id, result, error) ==
    [text |-> "object", type |-> type, invocationId |-> id, result |-> result,
     error |-> error, target |-> NoField, arguments |-> <<>>]

\* the completions the server may send on a connection: for an invocation
\* id it has read from that connection, or with no id
CompletionFrames(k) ==
    {ObjectFrame(3, id, r, e) :
        id \in (IF k \in Conns THEN conns[k].rcvd ELSE {}),
        r \in Results, e \in Errors}
PingFrame == ObjectFrame(6, NoField, NoField, NoField)
CloseFrame == ObjectFrame(7, NoField, NoField, NoField)

SessionMessages(k) == {<<f>> : f \in CompletionFrames(k) \cup {PingFrame, CloseFrame}}

(* --------------------------- specifications --------------------------- *)
\* the steps of the calling tasks P, with requests from M x A
CallNext(P, M, A) ==
    \/ \E p \in P, m \in M, a \in A : Start(p, m, a)
    \/ \E p \in P : ConnectOpen(p)
    \/ \E p \in P, b \in BOOLEAN : ConnectRefused(p, b)
    \/ \E p \in P : ConnectAck(p)
    \/ \E p \in P : ConnectNoAck(p)
    \/ \E c \in P \cap Callers : Timeout(c)
    \/ \E c \in P \cap Callers : Resume(c)

\* the steps of the listener tasks, the server, async_disconnect, the clock
SessionNext ==
    \/ \E k \in Conns : \E m \in SessionMessages(tasks[k].conn) : Listener(k, m)
    \/ \E k \in Conns : ServerClose(k)
    \/ DisconnectBegin
    \/ DisconnectTaskAwaited
    \/ DisconnectFinish
    \/ Tick

\* the duplex session with its invoke callers
Next == CallNext(Callers, {"GetDevices"}, {<<"{}">>}) \/ SessionNext

Spec == Init /\ [][Next]_vars

\* one invoke caller and the fire-and-forget sender, every request
SendNext == CallNext({1, Sender}, Methods, ArgLists) \/ SessionNext

SendSpec == Init /\ [][SendNext]_vars

(* --------------------------- the push session -------------------------- *)
\* the frames of a server that pushes notifications
PushFrame(target, arguments) ==
    [text |-> "object", type |-> 1, invocationId |-> NoField, result |-> NoField,
     error |-> NoField, target |-> target, arguments |-> arguments]
GarbageFrame == [NoFrame EXCEPT !.text = "garbage"]
BlankFrame == [NoFrame EXCEPT !.text = "blank"]
EventArg(valet) == [device_id |-> "d1", device_state |-> [valet |-> valet]]
UpdateArg == [id |-> "d1", rpm |-> "900"]

PushFrames ==
    {PushFrame("EventObject", <<EventArg(v)>>) : v \in {"On", "Off"}}
    \cup {PushFrame("EventObject", <<EventArg("On"), JunkArg>>),
          PushFrame("StateUpdate", <<UpdateArg>>),
          PushFrame("Other", <<>>),
          PingFrame, CloseFrame, GarbageFrame, BlankFrame}

PushMessages ==
    UNION {[1..n -> PushFrames] : n \in 1..MaxFrames}

\* one task that sends commands and connects lazily, the handlers being
\* registered, the listener reading the server's pushes, the disconnect
PushNext ==
    \/ Start(Sender, "SetConnectionActivity", <<"{}">>)
    \/ ConnectOpen(Sender)
    \/ \E b \in BOOLEAN : ConnectRefused(Sender, b)
    \/ ConnectAck(Sender)
    \/ ConnectNoAck(Sender)
    \/ \E h \in Handlers : AddMessageHandler(h)
    \/ \E k \in Conns : \E m \in PushMessages : Listener(k, m)
    \/ \E k \in Conns : ServerClose(k)
    \/ DisconnectBegin
    \/ DisconnectTaskAwaited
    \/ DisconnectFinish

PushSpec == Init /\ [][PushNext]_vars

(* -------------------------- the device session ------------------------- *)
\* the attribute bags of the server: {guard, valet} and {valet, rpm}
GuardValet(guard, valet) == [guard |-> guard, valet |-> valet]
ValetRpm(valet, rpm) == [valet |-> valet, rpm |-> rpm]
GuardValetBags == {GuardValet("Off", "On"), GuardValet("SafeGuardOn", "Off")}
ValetRpmBags == {ValetRpm(v, "900") : v \in {"On", "Off"}}

\* a state push for device d1 with the given bags, one argument each
StatePush(bags) ==
    PushFrame("EventObject",
              [i \in 1..Len(bags) |-> [device_id |-> "d1", device_state |-> bags[i]]])

\* the device list: a device, and an item with no id
Device == [device_id |-> "d1", name |-> "car"]
Nameless == [name |-> "trailer"]
DeviceList == <<Device, Nameless>>

\* the answers to GetDeviceInfoTp and GetDevices: a bag, an empty result, a
\* device list in each of its two shapes, and an error
QueryResults ==
    {GuardValet("Off", "Off"), EmptyMap, [devices |-> DeviceList],
     [data |-> [devices |-> DeviceList]]}
QueryFrames(k) ==
    {ObjectFrame(3, id, r, NoField) :
        id \in (IF k \in Conns THEN conns[k].rcvd ELSE {}), r \in QueryResults}
    \cup {ObjectFrame(3, id, EmptyMap, "boom") :
             id \in (IF k \in Conns THEN conns[k].rcvd ELSE {})}

DeviceMessages(k) ==
    {<<f>> : f \in QueryFrames(k)}
    \cup {<<StatePush(<<b>>)>> : b \in GuardValetBags \cup ValetRpmBags}
    \cup {<<StatePush(<<a, b>>)>> : a \in GuardValetBags, b \in ValetRpmBags}

\* one task that asks for the device list and for the state of device d1,
\* connecting lazily, the listener reading the server's pushes and answers,
\* the disconnect
DeviceNext ==
    \/ GetDeviceState(1, "d1")
    \/ GetDeviceStateResume(1)
    \/ GetDevices(1)
    \/ \E b \in BOOLEAN : GetDevicesLogin(1, b)
    \/ ConnectOpen(1)
    \/ GetDevicesConnectFailed(1)
    \/ GetDevicesConnectAck(1)
    \/ GetDevicesResume(1)
    \/ Timeout(1)
    \/ Tick
    \/ \E k \in Conns : \E m \in DeviceMessages(tasks[k].conn) : Listener(k, m)
    \/ \E k \in Conns : ServerClose(k)
    \/ DisconnectBegin
    \/ DisconnectTaskAwaited
    \/ DisconnectFinish

DeviceSpec == Init /\ [][DeviceNext]_vars

\* the session while it opens no more than LiveConns connections, with the
\* event loop's guarantees: time passes, a timer that is due fires, a task
\* whose future is done runs again
(* ------------------------- the normalisation alone -------------------- *)
\* a bag with the key k at one of the values, or without it
Optional(k, values) == {EmptyMap} \cup {(k :> v) : v \in values}

\* the attribute bags: guard, valet and rpm each at one of its values or
\* absent
FlatBags ==
    {Merge(Merge(g, v), r) : g \in Optional("guard", GuardValues),
                             v \in Optional("valet", {"On", "Off"}),
                             r \in Optional("rpm", {"0", "900"})}

\* the cache entries, none of them empty: a bag, or a bag under one of the
\* keys the parser looks into
RawBags ==
    (FlatBags \ {EmptyMap})
    \cup {(w :> b) : w \in {"device_state", "state", "data"}, b \in FlatBags}

\* the cache holds no entry, or an entry for d1 that the pushes of a session
\* have left
ParseInit ==
    /\ InitButStates
    /\ device_states \in {EmptyMap} \cup {("d1" :> raw) : raw \in RawBags}

\* a task asks for the state of d1
ParseNext == \E c \in Callers : GetDeviceState(c, "d1")
ParseSpec == ParseInit /\ [][ParseNext]_vars

(* -------------------------- the notified session ----------------------- *)
\* completions that answer no call of the client: under an id no call has
\* taken, and with no id
StrayCompletions ==
    {ObjectFrame(3, "stray", "r1", NoField), ObjectFrame(3, NoField, "r1", NoField)}
\* a frame of a type the listener does not know, with the target and the
\* arguments of a state push
OtherFrame == [PushFrame("EventObject", <<EventArg("On")>>) EXCEPT !.type = 2]

NotifyFrames(k) ==
    CompletionFrames(k) \cup StrayCompletions
        \cup {PingFrame, CloseFrame, OtherFrame,
              PushFrame("EventObject", <<EventArg("Off")>>)}
NotifyMessages(k) ==
    {<<f>> : f \in NotifyFrames(k)}
        \cup {<<f, g>> : f \in {CloseFrame, OtherFrame},
                         g \in StrayCompletions \cup {PingFrame, CloseFrame}}

\* one task that invokes and connects lazily, the handlers being
\* registered, the listener reading answers and notifications, the
\* disconnect
NotifyNext ==
    \/ Start(1, "GetDevices", <<"{}">>)
    \/ ConnectOpen(1)
    \/ ConnectAck(1)
    \/ Timeout(1)
    \/ Resume(1)
    \/ Tick
    \/ \E h \in Handlers : AddMessageHandler(h)
    \/ \E k \in Conns : \E m \in NotifyMessages(tasks[k].conn) : Listener(k, m)
    \/ \E k \in Conns : ServerClose(k)
    \/ DisconnectBegin
    \/ DisconnectTaskAwaited
    \/ DisconnectFinish

NotifySpec == Init /\ [][NotifyNext]_vars

(* ------------------------------ the coordinator ----------------------- *)
InFirstRefresh == [op |-> "first_refresh", device_id |-> NoField]

\* async_config_entry_first_refresh in the task c, on the client the
\* coordinator has just built: the first update finds no transport and gets
\* the empty state, then the task awaits async_connect_signalr
FirstRefresh(c) ==
    /\ coordinator = "new"
    /\ pc[c] = "idle"
    /\ websocket = 0
    /\ pc' = [pc EXCEPT ![c] = "negotiate"]
    /\ call' = [call EXCEPT ![c] = InFirstRefresh]
    /\ coordinator' = "refreshing"
    /\ outcome' = NoOutcomes
    /\ wire' = NoWire
    /\ data' = NoFrame
    /\ message' = <<>>
    /\ delivered' = <<>>
    /\ cancel_calls' = {}
    /\ UNCHANGED <<clock, connVars, session_id, message_handlers, device_states,
                   devices_cache, pending_requests, req, invocation_id, fut,
                   timed_out, dpc, ping_task>>

\* async_connect_signalr raises in the first refresh: the exception is
\* logged, and no handler is added and no keep-alive task created
RefreshConnectFailed(c, authenticated) ==
    /\ pc[c] \in {"negotiate", "handshake"}
    /\ call[c] = InFirstRefresh
    /\ access_token' = IF authenticated /\ pc[c] = "negotiate"
                       THEN LoggedIn.access_token ELSE access_token
    /\ session_id' = IF authenticated /\ pc[c] = "negotiate"
                     THEN LoggedIn.session_id ELSE session_id
    /\ myconn' = [myconn EXCEPT ![c] = 0]
    /\ Done(c, "refreshed", NoField)
    /\ call' = [call EXCEPT ![c] = NoCall]
    /\ coordinator' = "ready"
    /\ wire' = NoWire
    /\ data' = NoFrame
    /\ message' = <<>>
    /\ delivered' = <<>>
    /\ cancel_calls' = {}
    /\ UNCHANGED <<clock, websocket, websocket_task, conns, tasks,
                   message_handlers, device_states, devices_cache,
                   pending_requests, invocation_id, fut, timed_out, dpc, ping_task>>

\* async_connect_signalr returns in the first refresh: the listener task is
\* created, the coordinator's handler added and the keep-alive task created
RefreshConnectAck(c) ==
    /\ pc[c] = "handshake"
    /\ call[c] = InFirstRefresh
    /\ conns[myconn[c]].st = "open"
    /\ tasks' = [tasks EXCEPT ![myconn[c]] =
                    IF ListenerStart = "running"
                    THEN [st |-> "running", conn |-> websocket] ELSE ExitedTask]
    /\ websocket_task' = myconn[c]
    /\ myconn' = [myconn EXCEPT ![c] = 0]
    /\ message_handlers' = Append(message_handlers, "h1")
    /\ ping_task' = "running"
    /\ Done(c, "refreshed", NoField)
    /\ call' = [call EXCEPT ![c] = NoCall]
    /\ coordinator' = "ready"
    /\ wire' = NoWire
    /\ data' = NoFrame
    /\ message' = <<>>
    /\ delivered' = <<>>
    /\ cancel_calls' = {}
    /\ UNCHANGED <<clock, access_token, session_id, websocket, conns,
                   device_states, devices_cache, pending_requests,
                   invocation_id, fut, timed_out, dpc>>

\* a keep-alive loop that gives up once the channel is closed
PingAttemptWhileOpen ==
    /\ ping_task = "running"
    /\ websocket # 0 => conns[websocket].st = "open"
    /\ Start(Sender, "SetConnectionActivity", <<"{}">>)

\* _signalr_ping: the sleep of one interval ends and the loop, in the task
\* Sender, calls async_send_signalr_command; however the call ends the task
\* is back in the sleep
PingAttempt ==
    /\ ping_task = "running"
    /\ Start(Sender, "SetConnectionActivity", <<"{}">>)

\* self._ping_task.cancel(), called on the task held whatever its state
PingCancelCalls ==
    IF ping_task # "none" THEN {[task |-> "ping", was |-> ping_task]} ELSE {}

\* async_shutdown: a running keep-alive task is cancelled and awaited, and
\* CancelledError ends it wherever it is; a task that has ended is awaited
\* without suspending, and async_disconnect is entered
ShutdownBegin ==
    /\ coordinator \in {"ready", "disconnect"}
    /\ dpc = "idle"
    /\ IF ping_task = "running"
       THEN /\ ping_task' = "cancelled"
            /\ cancel_calls' = PingCancelCalls
            /\ coordinator' = "await_ping"
            /\ pc' = [pc EXCEPT ![Sender] = "idle"]
            /\ req' = [req EXCEPT ![Sender] = NoReq]
            /\ myconn' = [myconn EXCEPT ![Sender] = 0]
            /\ outcome' = NoOutcomes
            /\ wire' = NoWire
            /\ data' = NoFrame
            /\ message' = <<>>
            /\ delivered' = <<>>
            /\ UNCHANGED <<clock, access_token, session_id, websocket,
                           websocket_task, conns, tasks, pushVars,
                           pending_requests, invocation_id, fut, timed_out, dpc>>
       ELSE /\ DisconnectEnter
            /\ cancel_calls' = PingCancelCalls \cup ListenerCancelCalls
            /\ coordinator' = "disconnect"
            /\ UNCHANGED ping_task

\* the cancelled keep-alive task has ended: async_disconnect is entered
ShutdownPingAwaited ==
    /\ coordinator = "await_ping"
    /\ DisconnectEnter
    /\ cancel_calls' = ListenerCancelCalls
    /\ coordinator' = "disconnect"
    /\ UNCHANGED ping_task

\* async_shutdown has returned, and has not been called again
ShutdownReturned == coordinator = "disconnect" /\ dpc = "idle"

\* the task p is in a connect of its own, not in one made by the first
\* refresh
PlainCall(p) == p \in Callers => call[p] = NoCall

\* the server of the coordinator's session sends pings
CoordMessages == {<<PingFrame>>}

\* the coordinator's life: the first refresh, the keep-alive loop, the calls
\* of the entities once the setup is over, the listener, and the shutdown
CoordNext ==
    \/ FirstRefresh(1)
    \/ \E p \in Procs : ConnectOpen(p)
    \/ \E b \in BOOLEAN : RefreshConnectFailed(1, b)
    \/ RefreshConnectAck(1)
    \/ PingAttempt
    \/ \E c \in Callers : coordinator = "ready" /\ Start(c, "GetDevices", <<"{}">>)
    \/ \E p \in Procs, b \in BOOLEAN : PlainCall(p) /\ ConnectRefused(p, b)
    \/ \E p \in Procs : PlainCall(p) /\ ConnectAck(p)
    \/ \E p \in Procs : PlainCall(p) /\ ConnectNoAck(p)
    \/ Tick
    \/ \E c \in Callers : Timeout(c)
    \/ \E c \in Callers : Resume(c)
    \/ \E k \in Conns : \E m \in CoordMessages : Listener(k, m)
    \/ \E k \in Conns : ServerClose(k)
    \/ ShutdownBegin
    \/ ShutdownPingAwaited
    \/ DisconnectTaskAwaited
    \/ DisconnectFinish
CoordSpec == Init /\ [][CoordNext]_vars

(* ------------------------------ the login alone ----------------------- *)
\* a task logs in again and again, the passport server answering as it likes,
\* with pycryptodome installed or not
AuthNext == \E r \in LoginResponses, encrypts \in BOOLEAN : AsyncAuthenticate(1, r, encrypts)
AuthSpec == Init /\ [][AuthNext]_vars

LiveConns == 1
LiveNext == Next /\ \A k \in Conns : k > LiveConns => conns'[k].st = "unused"

FairSpec ==
    /\ Init /\ [][LiveNext]_vars
    /\ WF_vars(Tick)
    /\ \A c \in Callers : WF_vars(Timeout(c)) /\ WF_vars(Resume(c))

(* ------------------------------- claims ------------------------------- *)
Done3 == {"result", "exception", "cancelled"}
Waiting(c) == pc[c] = "waiting"
Released(c) == pc[c] = "waiting" /\ pc'[c] = "idle"
NoOpenConn == \A k \in Conns : conns[k].st # "open"

\* C1: when the listener receives a completion whose invocationId is the id
\* of an invoke that is waiting on an unresolved future, that invoke's
\* future gets the frame's result if the frame has no error field, and an
\* exception if the frame carries a (non-empty) error
C1_RoundTrip ==
    [][\A c \in Callers :
        (Waiting(c) /\ fut[c].st = "pending" /\ data'.type = 3
            /\ data'.invocationId = invocation_id[c])
        => IF data'.error = NoField
           THEN fut'[c] = [st |-> "result", val |-> data'.result]
           ELSE Truthy(data'.error) => fut'[c].st = "exception"]_vars

\* C2: two invokes in flight never hold the same invocationId, and each
\* has its own entry in the pending table
C2_UniqueIds ==
    \A c \in Callers :
        Waiting(c) =>
            /\ \A d \in Callers \ {c} : Waiting(d) => invocation_id[d] # invocation_id[c]
            /\ fut[c].st = "pending" =>
                   /\ invocation_id[c] \in DOMAIN pending_requests
                   /\ pending_requests[invocation_id[c]] = c

\* C3: a frame written by async_invoke_signalr or async_send_signalr_command
\* is the text of one JSON object followed by exactly one record separator,
\* and the object has target = the method, type = 1, an invocationId and
\* arguments = the argument list of the call
C3_FrameFormat ==
    wire.op \in {"invoke", "send"} =>
        LET s == wire.text
            body == SubSeq(s, 1, Len(s) - 1)
        IN  /\ Len(s) >= 1
            /\ s[Len(s)].t = "rs"
            /\ \A i \in 1..Len(body) : body[i].t # "rs"
            /\ IsObjectText(body)
            /\ {"target", "type", "invocationId", "arguments"} \subseteq LoadsKeys(body)
            /\ LoadsGet(body, "target") = wire.method
            /\ LoadsGet(body, "type") = 1
            /\ LoadsGet(body, "arguments") = wire.arguments

\* a send whose argument holds the record separator character
C3_Witness ==
    /\ wire.op = "send"
    /\ wire.arguments = <<RecordSeparator>>
    /\ wire.method = "SetConnectionActivity"

\* C4: a call whose future is cancelled by the timeout raises TimeoutError
\* and its id leaves the pending table; a completion for the id of a call
\* that raised TimeoutError resolves no future, changes no pending entry and
\* does not end a listener task
C4_LateCompletionDropped ==
    [][/\ \A c \in Callers :
            (Released(c) /\ fut[c].st = "cancelled")
            => /\ outcome'[c].kind = "timeout"
               /\ invocation_id[c] \notin DOMAIN pending_requests'
               /\ invocation_id[c] \in timed_out'
       /\ (data'.type = 3 /\ data'.invocationId \in timed_out)
            => /\ fut' = fut
               /\ pending_requests' = pending_requests
               /\ tasks' = tasks
               /\ conns' = conns]_vars

\* the listener has just dispatched a completion for a timed-out id
C4_Witness ==
    /\ data.type = 3
    /\ data.invocationId \in timed_out
    /\ \E k \in Conns : tasks[k].st = "running"

\* C5: the timeout never releases a call once no connection is open: a
\* call suspended on a closed channel is failed with the transport error
C5_ClosureRaisesTransportError ==
    [][\A c \in Callers :
        (Waiting(c) /\ fut[c].st = "pending" /\ NoOpenConn)
        => fut'[c].st # "cancelled"]_vars

\* a teardown completes: async_disconnect returns, or a listener task ends
\* because its connection closed
TeardownEnds ==
    \/ dpc = "closing" /\ dpc' = "idle"
    \/ \E k \in Conns : tasks[k].st = "running" /\ tasks'[k].st = "exited"

\* C6: when a teardown completes no registered future is left unresolved
C6_TeardownFailsPending ==
    [][TeardownEnds =>
        \A id \in DOMAIN pending_requests' :
            fut'[pending_requests'[id]].st # "pending"]_vars

\* a call that failed: it raised
Failed(c) == pc[c] = "idle" /\ outcome[c].kind \in {"error", "timeout", "closed"}

\* connection k no longer delivers frames: it is closed or its listener
\* task has ended
SessionOver(k) ==
    \/ conns[k].st = "closed"
    \/ tasks[k].st \in {"exited", "cancelled"}

\* the call of c is suspended on an unresolved future and every connection
\* opened so far is over
Stranded(c) ==
    /\ Waiting(c) /\ fut[c].st = "pending"
    /\ \E k \in Conns : SessionOver(k)
    /\ \A k \in Conns : conns[k].st = "unused" \/ SessionOver(k)

\* C7: an invoke that is suspended on an unresolved future when the channel
\* closes or the listener task ends is eventually released with a failure
C7_NoCallerHangs ==
    \A c \in Callers : Stranded(c) ~> Failed(c)

\* a caller is suspended on an unresolved future and a channel has closed
C7_Witness ==
    \E c \in Callers :
        /\ Stranded(c)
        /\ \E k \in Conns : conns[k].st = "closed"

\* C8: a future that is done is not resolved again: it keeps its state
\* until its caller is released; a release gives the caller exactly the
\* outcome of its future; and only a waiting call is released with a
\* result, an error or a timeout
C8_ReleasedOnce ==
    [][\A c \in Callers :
        /\ fut[c].st \in Done3
            => \/ fut'[c] = fut[c] /\ Waiting(c)'
               \/ Released(c) /\ fut'[c] = NoFuture
        /\ Released(c) => fut[c].st \in Done3 /\ outcome'[c] = OutcomeOf(fut[c])
        /\ outcome'[c].kind \in {"result", "error", "timeout"} => Released(c)]_vars

\* the listener has just dropped a second completion, with another result,
\* for a call whose future is done and whose caller has not run yet
C8_Witness ==
    \E c \in Callers :
        /\ Waiting(c) /\ fut[c].st = "result"
        /\ data.type = 3 /\ data.invocationId = invocation_id[c]
        /\ data.error = NoField /\ data.result # fut[c].val
        /\ pending_requests[invocation_id[c]] = c

\* C9: when a call fails, every other call in flight that has its entry in
\* the pending table keeps it
C9_FailureIsolated ==
    [][\A c, d \in Callers :
        (/\ c # d /\ Released(c) /\ outcome'[c].kind # "result"
         /\ Waiting(d) /\ invocation_id[d] \in DOMAIN pending_requests
         /\ pending_requests[invocation_id[d]] = d)
        => /\ invocation_id[d] \in DOMAIN pending_requests'
           /\ pending_requests'[invocation_id[d]] = d]_vars

\* a step of the task that runs async_send_signalr_command
SenderStep ==
    \/ pc'[Sender] # pc[Sender]
    \/ outcome'[Sender].kind # "none"
    \/ wire'.op = "send"

\* C10: no step of async_send_signalr_command changes the pending table or
\* a future, whether it succeeds or fails, and the step that writes the
\* frame is the step in which the call returns
C10_FireAndForget ==
    [][/\ SenderStep => pending_requests' = pending_requests /\ fut' = fut
       /\ wire'.op = "send" => pc'[Sender] = "idle" /\ outcome'[Sender].kind = "sent"]_vars

\* a command has just been written while a request is pending
C10_Witness ==
    /\ wire.op = "send"
    /\ outcome[Sender].kind = "sent"
    /\ \E id \in DOMAIN pending_requests : fut[pending_requests[id]].st = "pending"

(* ------------------------ claims on the dispatch ----------------------- *)
\* the handler calls the log holds for the frame at index i of the message
HandlerCalls(log, i) ==
    SelectSeq(log, LAMBDA e : e.kind = "handler" /\ e.index = i)
\* all the effects the log holds for the frame at index i
EffectsOf(log, i) == SelectSeq(log, LAMBDA e : e.index = i)

\* every registered handler was called once for frame i, in the order of
\* the registry, with the frame as it was received
CalledAll(i) ==
    LET calls == HandlerCalls(delivered, i) IN
        /\ Len(calls) = Len(message_handlers)
        /\ \A p \in 1..Len(calls) :
              /\ calls[p].handler = message_handlers[p]
              /\ calls[p].pos = p
              /\ calls[p].frame = message[i]

\* a frame json.loads accepts as an object whose arguments are objects
WellFormed(f) ==
    /\ f.text = "object"
    /\ \A a \in 1..Len(f.arguments) : IsDict(f.arguments[a])

\* C11: for every ping frame of a message the listener has read, the one
\* effect of the frame is one ping reply written (so no handler is called
\* for it), and a message of ping frames changes no future, no pending
\* entry and no device state
C11_PingReply ==
    [][/\ \A i \in 1..Len(message') :
            message'[i].type = 6 =>
                LET effects == EffectsOf(delivered', i) IN
                    /\ Len(effects) = 1
                    /\ effects[1].kind = "ping"
                    /\ wire'.text = PingText
       /\ (message' # <<>> /\ \A i \in 1..Len(message') : message'[i].type = 6)
            => /\ fut' = fut
               /\ pending_requests' = pending_requests
               /\ device_states' = device_states]_vars

\* argument a of frame f pushes field k of a device, and no later argument
\* of the frame pushes that field of that device again
Pushes(f, a, k) ==
    LET arg == f.arguments[a] IN
        /\ IsDict(arg)
        /\ Truthy(Get(arg, "device_id"))
        /\ "device_state" \in DOMAIN arg
        /\ k \in DOMAIN arg["device_state"]
        /\ \A b \in (a + 1)..Len(f.arguments) :
              LET later == f.arguments[b] IN
                  ~ /\ IsDict(later)
                    /\ Get(later, "device_id") = Get(arg, "device_id")
                    /\ "device_state" \in DOMAIN later
                    /\ k \in DOMAIN later["device_state"]

\* C12: every handler called for an EventObject frame is called with the
\* frame as received, and the cache it can read at that moment already
\* holds, under the device id of each argument, every field the frame pushes
C12_MergeBeforeHandlers ==
    \A j \in 1..Len(delivered) :
        LET e == delivered[j] IN
            (e.kind = "handler" /\ e.frame.type = 1 /\ e.frame.target = "EventObject")
            => /\ e.frame = message[e.index]
               /\ \A a \in 1..Len(e.frame.arguments) :
                     \A k \in {"guard", "valet", "rpm"} :
                        Pushes(e.frame, a, k) =>
                           LET arg == e.frame.arguments[a] IN
                               /\ arg["device_id"] \in DOMAIN e.seen
                               /\ k \in DOMAIN e.seen[arg["device_id"]]
                               /\ e.seen[arg["device_id"]][k] = arg["device_state"][k]

\* two handlers have been called for a push of valet = Off that is the
\* second frame of its message, the first having pushed valet = On
C12_Witness ==
    /\ Len(message) = 2
    /\ message[1] = PushFrame("EventObject", <<EventArg("On")>>)
    /\ message[2] = PushFrame("EventObject", <<EventArg("Off")>>)
    /\ Len(HandlerCalls(delivered, 2)) = 2
    /\ HandlerCalls(delivered, 1)[1].seen["d1"]["valet"] = "On"
    /\ HandlerCalls(delivered, 2)[1].seen["d1"]["valet"] = "Off"

\* C13: for every type 1 frame of a message the listener has read, every
\* registered handler was called exactly once with the frame, in the order
\* of registration
C13_AllHandlersOnceInOrder ==
    \A i \in 1..Len(message) :
        (message[i].text = "object" /\ message[i].type = 1) => CalledAll(i)

\* C14: a well-formed frame that is neither a ping nor a completion and
\* that follows only unparsable, blank and well-formed frames in its
\* message is dispatched: the handlers are called for it
C14_UnparsableSkipped ==
    \A j \in 1..Len(message) :
        (/\ WellFormed(message[j]) /\ message[j].type \notin {3, 6}
         /\ \A i \in 1..(j - 1) :
               WellFormed(message[i]) \/ message[i].text \in {"garbage", "blank"})
        => CalledAll(j)

\* every frame before frame j of the message is well formed or blank
CleanBefore(j) ==
    \A i \in 1..(j - 1) : WellFormed(message[i]) \/ message[i].text = "blank"

\* C15: when a handler has raised for a frame, every registered handler was
\* still called for that frame and for every later well-formed frame of the
\* message that goes to the handlers, and the listener task is still running
C15_HandlerExceptionContained ==
    \A j \in 1..Len(delivered) :
        (delivered[j].kind = "handler" /\ delivered[j].raised)
        => /\ CalledAll(delivered[j].index)
           /\ \A i \in (delivered[j].index + 1)..Len(message) :
                 (WellFormed(message[i]) /\ message[i].type \notin {3, 6}
                    /\ CleanBefore(i))
                 => CalledAll(i)
           /\ \E k \in Conns : tasks[k].st = "running"

\* the handler registered first raised for the first frame of a message;
\* the second handler was called for it, and both for the second frame
C15_Witness ==
    /\ message_handlers = <<"h2", "h1">>
    /\ Len(message) = 2
    /\ message[1].type = 1 /\ message[2].type = 1
    /\ Len(HandlerCalls(delivered, 1)) = 2
    /\ HandlerCalls(delivered, 1)[1].raised
    /\ Len(HandlerCalls(delivered, 2)) = 2
(* ------------------------------ device state --------------------------- *)
Entry(ds) == ds["d1"]
Cached(ds) == "d1" \in DOMAIN ds
MergedFields == {"guard", "valet", "rpm"}

\* C16: a state push that applies {guard, valet} and then {valet, rpm} to a
\* device leaves its entry with the guard of the first update, the valet of
\* the second and the rpm present, and every other field as it was; a push
\* for a device with no entry creates the entry with the fields pushed
C16_MergeLaw ==
    [][/\ \A a \in GuardValetBags, b \in ValetRpmBags :
            message' = <<StatePush(<<a, b>>)>> =>
                /\ Cached(device_states')
                /\ Get(Entry(device_states'), "guard") = a.guard
                /\ Get(Entry(device_states'), "valet") = b.valet
                /\ Get(Entry(device_states'), "rpm") = b.rpm
                /\ DOMAIN Entry(device_states') =
                       MergedFields \cup
                           (IF Cached(device_states)
                            THEN DOMAIN Entry(device_states) ELSE {})
                /\ Cached(device_states) =>
                       \A k \in DOMAIN Entry(device_states) \ MergedFields :
                           Entry(device_states')[k] = Entry(device_states)[k]
       /\ \A b \in GuardValetBags \cup ValetRpmBags :
            message' = <<StatePush(<<b>>)>> /\ ~Cached(device_states) =>
                Cached(device_states') /\ Entry(device_states') = b
      ]_vars

\* the two updates have been merged into an entry that came from the device
\* list: name is kept, guard is the first update's, valet the second's
C16_Witness ==
    /\ message = <<StatePush(<<GuardValet("SafeGuardOn", "Off"), ValetRpm("On", "900")>>)>>
    /\ Cached(device_states)
    /\ Entry(device_states) =
          [device_id |-> "d1", name |-> "car", guard |-> "SafeGuardOn",
           valet |-> "On", rpm |-> "900"]
\* C17: no step of a session deletes the entry of a device or removes a
\* field from it
C17_MonotonicMerge ==
    [][\A d \in DOMAIN device_states :
          /\ d \in DOMAIN device_states'
          /\ DOMAIN device_states[d] \subseteq DOMAIN device_states'[d]]_vars
\* the call of c that asks for the state of d1 ends in this step, after its
\* invoke
StateQueryEnds(c) ==
    pc[c] = "waiting" /\ call[c].op = "get_device_state" /\ pc'[c] = "idle"
\* a call of c starts and ends in this step and is no async_get_devices,
\* which returns a device list when it ends at once
StateQueryEndsAtOnce(c) ==
    pc[c] = "idle" /\ pc'[c] = "idle" /\ outcome'[c].kind \notin {"none", "devices"}
NoTransport == websocket = 0 \/ conns[websocket].st # "open"
IsEmptyState(o) ==
    /\ o.kind = "state"
    /\ o.val.source = "empty"
    /\ o.val.state = EmptyState
ReturnsEmptyState(c) == IsEmptyState(outcome'[c])

\* C18: async_get_device_state returns the empty state and does not raise
\* when the device is not cached and there is no connection, and when the
\* device is not cached and the GetDeviceInfoTp invoke times out, fails or
\* returns an empty result
C18_DegradesToEmptyState ==
    [][\A c \in Callers :
          /\ StateQueryEndsAtOnce(c) /\ ~Cached(device_states) /\ NoTransport
                 => ReturnsEmptyState(c)
          /\ /\ StateQueryEnds(c)
             /\ ~Cached(device_states)
             /\ \/ fut[c].st \in {"cancelled", "exception"}
                \/ fut[c].st = "result" /\ fut[c].val = EmptyMap
             => ReturnsEmptyState(c)
      ]_vars

\* the empty state has been returned for a device with no entry after an
\* invoke has timed out
C18_Witness ==
    /\ IsEmptyState(outcome[1])
    /\ ~Cached(device_states)
    /\ timed_out # {}
(* ------------------------------ normalisation -------------------------- *)
\* the state that the call of c has just returned came from a bag
Parsed(c) == outcome[c].kind = "state" /\ outcome[c].val.source # "empty"
BagOf(c) == StateData(outcome[c].val.raw)
LabelOf(c) == outcome[c].val.state.state

\* C19: whenever async_get_device_state returns a state built from a bag,
\* the label is the service label if the bag's valet is On, whatever its
\* guard; else the armed label if the guard contains SafeGuard, the
\* disarmed label if the guard is Off, and the unknown label otherwise
C19_ValetOverridesGuard ==
    \A c \in Callers :
        Parsed(c) =>
            LET valet == Get(BagOf(c), "valet")
                guard == Get(BagOf(c), "guard")
            IN  /\ valet = "On" => LabelOf(c) = LabelService
                /\ valet # "On" /\ guard \in GuardsWithSafeGuard
                       => LabelOf(c) = LabelArmed
                /\ valet # "On" /\ guard = "Off" => LabelOf(c) = LabelDisarmed
                /\ valet # "On" /\ guard \notin GuardsWithSafeGuard \cup {"Off"}
                       => LabelOf(c) = LabelUnknown

\* a bag with valet On and a guard that contains SafeGuard has been given
\* the service label
C19_Witness ==
    /\ Parsed(1)
    /\ Get(BagOf(1), "valet") = "On"
    /\ Get(BagOf(1), "guard") \in GuardsWithSafeGuard
    /\ LabelOf(1) = LabelService
\* C20: every state async_get_device_state returns has the keys of the empty
\* state; and when it is built from a bag that lacks rpm, guard or valet, its
\* rpm is zero and its guard and valet are the absent value
C20_StableShape ==
    \A c \in Callers :
        outcome[c].kind = "state" =>
            /\ DOMAIN outcome[c].val.state = DOMAIN EmptyState
            /\ Parsed(c) =>
                   /\ "rpm" \notin DOMAIN BagOf(c)
                          => Get(outcome[c].val.state, "rpm") = "0"
                   /\ \A k \in {"guard", "valet"} \ DOMAIN BagOf(c) :
                          Get(outcome[c].val.state, k) = NoField
(* ------------------------------- connecting ---------------------------- *)
OpenConns == {k \in Conns : conns[k].st = "open"}
RunningListeners == {k \in Conns : tasks[k].st = "running"}

\* C25: at any time at most one transport connection is open and at most one
\* listener task is running, and the client refers to both: no connect
\* leaves an open connection or a running listener unreferenced
C25_OneConnectionOneListener ==
    /\ Cardinality(OpenConns) <= 1
    /\ Cardinality(RunningListeners) <= 1
    /\ OpenConns \subseteq {websocket}
    /\ RunningListeners \subseteq {websocket_task}
\* async_connect_signalr raises in the task p in this step
ConnectFails(p) ==
    pc[p] \in {"negotiate", "handshake"} /\ outcome'[p].kind = "connect_error"

\* C29: when async_connect_signalr fails, at the negotiate POST or for want
\* of the acknowledgment, no listener task is started and the client does
\* not hold the transport the failed connect opened
C29_FailedNegotiationLeavesNothing ==
    [][\A p \in Procs :
          ConnectFails(p) =>
              /\ RunningListeners' \subseteq RunningListeners
              /\ websocket_task' = websocket_task
              /\ pc[p] = "handshake" => websocket' # myconn[p]
      ]_vars
(* ------------------------------- device list --------------------------- *)
\* the GetDevices invoke of c ends in this step with the result
\* {data: {devices: [...]}}, the list not empty
AnsweredWithDevices(c) ==
    /\ pc[c] = "waiting"
    /\ call[c] = InGetDevices
    /\ pc'[c] = "idle"
    /\ fut[c].st = "result"
    /\ "data" \in DOMAIN fut[c].val
    /\ "devices" \in DOMAIN fut[c].val["data"]
    /\ fut[c].val["data"]["devices"] # <<>>

\* C30: with an empty device cache, when the GetDevices invoke is answered
\* with {data: {devices: [...]}}, the call returns that list, the list
\* becomes the device cache, and every device of it that has a device id is
\* the entry of that id in the device states
C30_GetDevicesEndToEnd ==
    [][\A c \in Callers :
          AnsweredWithDevices(c) /\ devices_cache = <<>> =>
              LET devices == fut[c].val["data"]["devices"] IN
              /\ outcome'[c].kind = "devices"
              /\ outcome'[c].val = devices
              /\ devices_cache' = devices
              /\ \A i \in 1..Len(devices) :
                     "device_id" \in DOMAIN devices[i] =>
                         /\ devices[i].device_id \in DOMAIN device_states'
                         /\ device_states'[devices[i].device_id] = devices[i]
      ]_vars

\* the call has returned the list of the answer, the list is cached and d1
\* has the device as its entry
C30_Witness ==
    /\ outcome[1].kind = "devices"
    /\ outcome[1].val = DeviceList
    /\ devices_cache = DeviceList
    /\ Cached(device_states)
    /\ Entry(device_states) = Device
(* --------------------------------- login ------------------------------- *)
\* async_authenticate has ended in this step in the task c, answered with
\* the response outcome'[c].val
LoginEnds(c) ==
    outcome'[c].kind \in {"authenticated", AuthenticationError, AttributeError}
LoginFails(c) == outcome'[c].kind \in {AuthenticationError, AttributeError}

\* C26: a login answered with a status other than 200 raises
\* PrizrakAuthenticationError and leaves the access token as it was
C26_Non200RaisesAndStoresNothing ==
    [][\A c \in Callers :
          LoginEnds(c) /\ outcome'[c].val.status # 200 =>
              /\ outcome'[c].kind = AuthenticationError
              /\ access_token' = access_token
      ]_vars

\* a fresh client has been answered 401: the login has raised and there is
\* no token
C26_Witness ==
    /\ outcome[1].kind = AuthenticationError
    /\ outcome[1].val.status = 401
    /\ ~HasToken(access_token)

\* C27: the credential stored has the type tag 2154785295 and a bearer
\* token that is not empty
C27_TokenNotEmpty ==
    HasToken(access_token) =>
        /\ access_token.Type = TypeTag
        /\ Truthy(access_token.Atoken)

\* what a login changes: the token, the session id, and how the call ends
loginVars == <<access_token, session_id, [p \in Procs |-> outcome[p].kind]>>

\* C28: a login that fails raises PrizrakAuthenticationError and leaves the
\* access token and the session id as they were
C28_FailedLoginChangesNothing ==
    [][\A c \in Callers :
          LoginFails(c) =>
              /\ outcome'[c].kind = AuthenticationError
              /\ access_token' = access_token
              /\ session_id' = session_id
      ]_loginVars

\* what tells a shutdown that has returned from one that has not
shutdownVars == <<coordinator, dpc>>

\* C21: when the shutdown returns the keep-alive task and every listener
\* task have ended, nothing is written on the step, and the client holds no
\* transport
C21_ShutdownEndsBothTasks ==
    [][(~ShutdownReturned /\ ShutdownReturned') =>
          /\ ping_task' # "running"
          /\ RunningListeners' = {}
          /\ websocket' = 0
          /\ wire' = NoWire
      ]_shutdownVars

\* C22: no call of shutdown cancels a task that has been cancelled already
C22_NoSecondCancel == \A x \in cancel_calls : x.was # "cancelled"

\* the ways an attempt of the keep-alive loop fails
PingFailures == {"not_connected", "closed", "connect_error"}

\* C23: an attempt of the keep-alive loop that fails leaves the loop
\* running and back in its sleep, and a loop that is running and asleep can
\* always make its next attempt
C23_PingLoopGoesOn ==
    /\ outcome[Sender].kind \in PingFailures =>
           ping_task = "running" /\ pc[Sender] = "idle"
    /\ ping_task = "running" /\ pc[Sender] = "idle" => ENABLED PingAttempt

\* an attempt has failed on a transport that is closed, and the loop is
\* still running
C23_Witness ==
    /\ outcome[Sender].kind = "closed"
    /\ websocket # 0
    /\ ping_task = "running"

\* C24: once the setup is over and until the shutdown, whenever the client
\* holds an open transport with its listener the keep-alive loop is running
C24_PingRunsWithChannel ==
    ( /\ coordinator = "ready"
      /\ websocket # 0
      /\ conns[websocket].st = "open"
      /\ websocket_task # 0 ) => ping_task = "running"

(* ------------------------------ cached reads --------------------------- *)
\* the task c, idle, takes the first step of async_get_devices: the call
\* has ended at once or is in progress
GetDevicesStarts(c) ==
    /\ pc[c] = "idle"
    /\ \/ call'[c] \in {InGetDevices, InGetDevicesInvoke}
       \/ outcome'[c].kind \in {"devices", "error"}

\* what a device function may touch but for what it returns
effectVars == <<websocket, websocket_task, conns, tasks, pending_requests,
                devices_cache, device_states, wire, pc, call,
                [p \in Procs |-> outcome[p].kind]>>

\* C31: with a token and a device cache that is not empty, async_get_devices
\* returns the cached list at once, and it opens no connection, writes no
\* frame, registers no pending request and changes neither cache
C31_CachedDevicesNoEffect ==
    [][\A c \in Callers :
          (GetDevicesStarts(c) /\ HasToken(access_token) /\ devices_cache # <<>>) =>
              /\ pc'[c] = "idle"
              /\ outcome'[c].kind = "devices"
              /\ outcome'[c].val = devices_cache
              /\ call'[c] = NoCall
              /\ wire' = NoWire
              /\ <<websocket, websocket_task, conns, tasks>>' =
                     <<websocket, websocket_task, conns, tasks>>
              /\ pending_requests' = pending_requests
              /\ devices_cache' = devices_cache
              /\ device_states' = device_states
      ]_effectVars

\* the call has returned the cached list after a push had merged a field
\* into the state of d1, which a list fetched from the server replaces
C31_Witness ==
    /\ outcome[1].kind = "devices"
    /\ outcome[1].val = DeviceList
    /\ devices_cache = DeviceList
    /\ HasToken(access_token)
    /\ Cached(device_states)
    /\ "valet" \in DOMAIN Entry(device_states)

\* the task c, idle, takes the first step of async_get_device_state
GetDeviceStateStarts(c) ==
    /\ pc[c] = "idle"
    /\ \/ call'[c].op = "get_device_state"
       \/ outcome'[c].kind = "state"

\* C39: with an entry for the device async_get_device_state returns the
\* normalization of the entry, writes no frame, registers no pending request
\* and leaves the entry as it is; GetDeviceInfoTp is written only when the
\* device has no entry and a transport is held; and the call opens no
\* connection
C39_StateCacheFirst ==
    [][\A c \in Callers :
          /\ (GetDeviceStateStarts(c) /\ Cached(device_states)) =>
                /\ pc'[c] = "idle"
                /\ outcome'[c].kind = "state"
                /\ outcome'[c].val.state = ParseDeviceState(Entry(device_states))
                /\ wire' = NoWire
                /\ pending_requests' = pending_requests
                /\ device_states' = device_states
          /\ wire'.method = "GetDeviceInfoTp" =>
                ~Cached(device_states) /\ websocket # 0
          /\ GetDeviceStateStarts(c) =>
                /\ pc'[c] \in {"idle", "waiting"}
                /\ <<websocket, websocket_task, tasks>>' =
                       <<websocket, websocket_task, tasks>>
                /\ \A k \in Conns : conns'[k].st = conns[k].st
      ]_vars

\* the state of d1 has been returned from its entry while an open transport
\* was held
C39_Witness ==
    /\ outcome[1].kind = "state"
    /\ outcome[1].val.source = "cache"
    /\ websocket # 0
    /\ conns[websocket].st = "open"

(* ------------------------------ the registry --------------------------- *)
\* C33: a step that changes the handler registry adds one callback at its
\* end and leaves the callbacks registered before where they were
C33_RegistryAppendOnly ==
    [][/\ Len(message_handlers') = Len(message_handlers) + 1
       /\ SubSeq(message_handlers', 1, Len(message_handlers)) = message_handlers
      ]_message_handlers

\* both handlers are still registered in their order on the second
\* connection, the first being closed, as the listener has called them and
\* the first has raised
C33_Witness ==
    /\ message_handlers = <<"h2", "h1">>
    /\ conns[1].st = "closed"
    /\ websocket = 2
    /\ tasks[2].st = "running"
    /\ Len(delivered) > 0
    /\ delivered[1].kind = "handler"
    /\ delivered[1].raised

(* ---------------------------- the pending table ------------------------ *)
\* C37: every id in the pending table is the id of an invoke that has not
\* returned, so the table holds no entry of a call that has ended and is
\* empty when no invoke is in flight
C37_NoDanglingEntry ==
    \A id \in DOMAIN pending_requests :
        \E c \in Callers : pc[c] = "waiting" /\ invocation_id[c] = id

\* a call has just ended with the timeout, no call is waiting and the table
\* is empty
C37_Witness ==
    /\ outcome[1].kind = "timeout"
    /\ \A c \in Callers : pc[c] # "waiting"
    /\ pending_requests = EmptyMap

(* ------------------------ the transport and its reader ----------------- *)
\* C35: when the client holds a transport and no connect or disconnect is
\* in progress, the connect that opened the transport has started a
\* listener task for it
C35_TransportHasListener ==
    ( /\ websocket # 0
      /\ dpc = "idle"
      /\ \A p \in Procs : pc[p] \notin {"negotiate", "handshake"} )
    => tasks[websocket].st # "none"

\* the client holds a transport that is closed
StaleTransport == websocket # 0 /\ conns[websocket].st = "closed"
\* the task p, idle, starts a call, which goes on or ends at once
CallStarts(p) ==
    pc[p] = "idle" /\ (pc'[p] # "idle" \/ outcome'[p].kind # "none")

\* C36: the closing of the transport held leaves the client's reference to
\* it; a call or keep-alive attempt that starts while the transport held is
\* closed opens no connection, writes nothing and fails at once; and one
\* that starts on a client with no transport, as after async_disconnect,
\* connects
C36_StaleTransportNoReconnect ==
    [][/\ (websocket # 0 /\ conns[websocket].st = "open"
              /\ conns'[websocket].st = "closed") => websocket' = websocket
       /\ \A p \in Procs :
             /\ (StaleTransport /\ CallStarts(p)) =>
                   /\ pc'[p] = "idle"
                   /\ outcome'[p].kind = "closed"
                   /\ wire' = NoWire
                   /\ websocket' = websocket
                   /\ conns' = conns
             /\ (websocket = 0 /\ CallStarts(p)) => pc'[p] = "negotiate"
      ]_vars

\* a call has just failed on the closed transport the client still holds,
\* the second it has opened
C36_Witness ==
    /\ outcome[1].kind = "closed"
    /\ StaleTransport
    /\ websocket = 2
    /\ conns[1].st = "closed"
    /\ tasks[websocket].st = "exited"

Stray(f) ==
    /\ f.text = "object"
    /\ f.type = 3
    /\ ~Truthy(f.invocationId) \/ f.invocationId \notin DOMAIN pending_requests

\* C38: no handler is called with a completion or a ping, whether or not
\* the completion names a pending request; and a message of completions
\* that name none changes no future, no pending entry and no device state
C38_CompletionsNotNotified ==
    [][/\ \A j \in 1..Len(delivered') :
             delivered'[j].kind = "handler" => delivered'[j].frame.type \notin {3, 6}
       /\ (message' # <<>> /\ \A i \in 1..Len(message') : Stray(message'[i])) =>
             /\ fut' = fut
             /\ pending_requests' = pending_requests
             /\ device_states' = device_states
      ]_<<delivered, fut, pending_requests, device_states>>

\* the listener has resolved the future of the waiting call with the
\* result of its completion, two handlers being registered, and has called
\* none
C38_Witness ==
    /\ Len(message) = 1
    /\ message[1].type = 3
    /\ Len(message_handlers) = 2
    /\ delivered = <<>>
    /\ pc[1] = "waiting"
    /\ fut[1].st = "result"
    /\ message[1].invocationId = invocation_id[1]

\* a frame json.loads accepts as an object, of a type that is no
\* invocation, completion or ping
UnknownType(f) == f.text = "object" /\ f.type \notin {1, 3, 6}

====
